---------------------------- MODULE Spec2Model ----------------------------
(***************************************************************************)
(* Model of the financial record normalization and validation helpers of  *)
(* the Stellar disbursement front end: the status transition validators,  *)
(* the role catalogue and access checks, and the record formatters.       *)
(*                                                                         *)
(* Every helper is a pure function of its arguments.  An action of the    *)
(* model is one call of a helper: it draws the arguments from a bounded   *)
(* set, computes the outcome the way the source computes it and leaves    *)
(* the call (function, arguments, outcome, log lines) in the variable     *)
(* call.  The two status variables are the status of one disbursement and *)
(* of one payment held by a caller that changes a status only when the    *)
(* validator accepts the change.                                          *)
(***************************************************************************)
EXTENDS Integers, Sequences, FiniteSets, TLC

VARIABLES
    call,                \* the last helper call: function, arguments, outcome
    disbursementStatus,  \* status of the disbursement held by the caller
    paymentStatus,       \* status of the payment held by the caller
    mutation,            \* the run of the role-update mutation and its requests
    refresh,             \* the run of refreshSessionToken
    session,             \* localStorage, the store and the run that ends a session
    download,            \* the run of saveFile: timer, link, object URL, callback
    monitor              \* PerformanceMonitor: marks, metrics and the calls in flight

vars == <<call, disbursementStatus, paymentStatus,
          mutation, refresh, session, download, monitor>>

-----------------------------------------------------------------------------
(* JavaScript values.  An optional value is the empty tuple (undefined) or *)
(* a one-element tuple holding the value.                                  *)

Undefined == <<>>

Some(v) == <<v>>

\* !s for an optional string: undefined and "" are falsy.
FalsyString(o) == o = Undefined \/ o[1] = ""

\* !n for an optional number: undefined and 0 are falsy.
FalsyNumber(o) == o = Undefined \/ o[1] = 0

\* n || 0 for an optional number.
NumberOrZero(o) == IF FalsyNumber(o) THEN 0 ELSE o[1]

\* Array.prototype.includes
Includes(array, item) == \E i \in 1..Len(array) : array[i] = item

\* The outcome of a call: a returned value or a raised error, with the
\* lines the call wrote through the logger (level, message).
Return(v, logs) == [threw |-> FALSE, value |-> v, logs |-> logs]

Throw(e, logs) == [threw |-> TRUE, error |-> e, logs |-> logs]

NoCall == [fn |-> "none"]

-----------------------------------------------------------------------------
(* Status transition validators.                                          *)

\* obj[key] on an object literal whose own properties are arrays: the own
\* property, else the inherited one (a function or the prototype object,
\* never an array), else undefined.
PropertyLookup(obj, key) ==
    LET \* Property names every object literal inherits from Object.prototype.
        ObjectPrototypeProps ==
            {"constructor", "toString", "toLocaleString", "valueOf", "hasOwnProperty",
             "isPrototypeOf", "propertyIsEnumerable", "__proto__"}
    IN
    IF key \in DOMAIN obj THEN [kind |-> "array", items |-> obj[key]]
    ELSE IF key \in ObjectPrototypeProps THEN [kind |-> "inherited"]
    ELSE [kind |-> "undefined"]

\* lookup || []  followed by  .includes(newStatus)
IncludesOrEmpty(found, newStatus) ==
    LET allowedTransitions ==
            IF found.kind = "undefined" THEN [kind |-> "array", items |-> <<>>]
            ELSE found
    IN  IF allowedTransitions.kind = "array"
        THEN Return(Includes(allowedTransitions.items, newStatus), <<>>)
        ELSE Throw("TypeError: allowedTransitions.includes is not a function", <<>>)

\* The table with failed and retry leading only to each other.
PaymentTransitionsRetryForever ==
    [pending    |-> <<"processing", "failed", "canceled">>,
     processing |-> <<"completed", "failed">>,
     completed  |-> <<>>,
     failed     |-> <<"retry">>,
     canceled   |-> <<>>,
     retry      |-> <<"failed">>]

DisbursementTransitionsCompletedReopens ==
    [draft      |-> <<"pending", "canceled">>,
     pending    |-> <<"processing", "canceled">>,
     processing |-> <<"completed", "failed", "canceled">>,
     completed  |-> <<"processing">>,
     failed     |-> <<"retry", "canceled">>,
     canceled   |-> <<>>,
     retry      |-> <<"processing", "failed", "canceled">>]

DisbursementTransitionsNoProcessingCancel ==
    [draft      |-> <<"pending", "canceled">>,
     pending    |-> <<"processing", "canceled">>,
     processing |-> <<"completed", "failed">>,
     completed  |-> <<>>,
     failed     |-> <<"retry", "canceled">>,
     canceled   |-> <<>>,
     retry      |-> <<"processing", "failed", "canceled">>]

disbursementValidTransitions ==
    [draft      |-> <<"pending", "canceled">>,
     pending    |-> <<"processing", "canceled">>,
     processing |-> <<"completed", "failed", "canceled">>,
     completed  |-> <<>>,
     failed     |-> <<"retry", "canceled">>,
     canceled   |-> <<>>,
     retry      |-> <<"processing", "failed", "canceled">>]

validateDisbursementStatusTransition(currentStatus, newStatus) ==
    IncludesOrEmpty(PropertyLookup(disbursementValidTransitions, currentStatus),
                    newStatus)

PaymentTransitionsProcessingCancels ==
    [pending    |-> <<"processing", "failed", "canceled">>,
     processing |-> <<"completed", "failed", "canceled">>,
     completed  |-> <<>>,
     failed     |-> <<"retry", "canceled">>,
     canceled   |-> <<>>,
     retry      |-> <<"processing", "failed", "canceled">>]

paymentValidTransitions ==
    [pending    |-> <<"processing", "failed", "canceled">>,
     processing |-> <<"completed", "failed">>,
     completed  |-> <<>>,
     failed     |-> <<"retry", "canceled">>,
     canceled   |-> <<>>,
     retry      |-> <<"processing", "failed", "canceled">>]

validatePaymentStatusTransition(currentStatus, newStatus) ==
    IncludesOrEmpty(PropertyLookup(paymentValidTransitions, currentStatus),
                    newStatus)

\* The status strings the model draws from: the seven statuses of the
\* tables, one string no table knows, and one that names an inherited
\* property of the table object.
StatusStrings ==
    {"draft", "pending", "processing", "completed", "failed", "canceled",
     "retry", "archived", "constructor"}

\* The caller asks for a status change of its disbursement: the validator
\* is consulted and the status changes only when it returns true.
RequestDisbursementStatusChange(newStatus) ==
    LET outcome == validateDisbursementStatusTransition(disbursementStatus, newStatus)
    IN  /\ call' = [fn |-> "validateDisbursementStatusTransition",
                    currentStatus |-> disbursementStatus,
                    newStatus |-> newStatus,
                    outcome |-> outcome]
        /\ disbursementStatus' =
               IF ~outcome.threw /\ outcome.value THEN newStatus
               ELSE disbursementStatus
        /\ UNCHANGED <<paymentStatus, mutation, refresh, session, download, monitor>>

RequestPaymentStatusChange(newStatus) ==
    LET outcome == validatePaymentStatusTransition(paymentStatus, newStatus)
    IN  /\ call' = [fn |-> "validatePaymentStatusTransition",
                    currentStatus |-> paymentStatus,
                    newStatus |-> newStatus,
                    outcome |-> outcome]
        /\ paymentStatus' =
               IF ~outcome.threw /\ outcome.value THEN newStatus
               ELSE paymentStatus
        /\ UNCHANGED <<disbursementStatus, mutation, refresh, session, download, monitor>>

InitStatus ==
    /\ call = NoCall
    /\ disbursementStatus \in StatusStrings
    /\ paymentStatus \in StatusStrings
    /\ mutation = [pc |-> "idle"]
    /\ refresh = [pc |-> "idle"]
    /\ session = [pc |-> "idle", token |-> Undefined, dispatched |-> <<>>]
    /\ download = [pc |-> "idle"]
    /\ monitor = [marks |-> <<>>, metrics |-> <<>>, now |-> 1, calls |-> <<>>]

NextStatus ==
    \/ \E s \in StatusStrings : RequestDisbursementStatusChange(s)
    \/ \E s \in StatusStrings : RequestPaymentStatusChange(s)

SpecStatus == InitStatus /\ [][NextStatus]_vars

-----------------------------------------------------------------------------
(* Claims about the status transition validators, under SpecStatus.       *)

DisbursementStatuses ==
    {"draft", "pending", "processing", "completed", "failed", "canceled", "retry"}

TerminalStatuses == {"completed", "canceled"}

\* C2: in both status machines completed and canceled are absorbing: a
\* status that is completed or canceled is not changed by any request, and
\* the validator answers false for every requested next status.
C2_TerminalAbsorbing ==
    [][/\ disbursementStatus \in TerminalStatuses
            => disbursementStatus' = disbursementStatus
       /\ paymentStatus \in TerminalStatuses
            => paymentStatus' = paymentStatus
       /\ \A fn \in {"validateDisbursementStatusTransition",
                     "validatePaymentStatusTransition"} :
            (call'.fn = fn /\ call'.currentStatus \in TerminalStatuses)
                => call'.outcome = Return(FALSE, <<>>)]_vars

\* C2 witness: the completed disbursement was asked to go back to
\* processing and is still completed.
C2_Witness ==
    /\ call.fn = "validateDisbursementStatusTransition"
    /\ call.currentStatus = "completed"
    /\ call.newStatus = "processing"
    /\ call.outcome = Return(FALSE, <<>>)
    /\ disbursementStatus = "completed"

C3_Table ==
    {<<"draft", "pending">>, <<"draft", "canceled">>,
     <<"pending", "processing">>, <<"pending", "canceled">>,
     <<"processing", "completed">>, <<"processing", "failed">>,
     <<"processing", "canceled">>,
     <<"failed", "retry">>, <<"failed", "canceled">>,
     <<"retry", "processing">>, <<"retry", "failed">>, <<"retry", "canceled">>}

\* C3: for every current disbursement status and every next status the
\* disbursement validator returns true exactly when the pair is in the
\* documented table, and false otherwise.
C3_DisbursementTransitionTable ==
    (/\ call.fn = "validateDisbursementStatusTransition"
     /\ call.currentStatus \in DisbursementStatuses)
        => call.outcome =
               Return(<<call.currentStatus, call.newStatus>> \in C3_Table, <<>>)

\* C3 witness: an accepted pair (processing -> canceled) was checked.
C3_Witness ==
    /\ call.fn = "validateDisbursementStatusTransition"
    /\ call.currentStatus = "processing"
    /\ call.newStatus = "canceled"
    /\ call.outcome = Return(TRUE, <<>>)
    /\ disbursementStatus = "canceled"

C4_Table ==
    {<<"pending", "processing">>, <<"pending", "failed">>,
     <<"pending", "canceled">>,
     <<"processing", "completed">>, <<"processing", "failed">>,
     <<"failed", "retry">>, <<"failed", "canceled">>,
     <<"retry", "processing">>, <<"retry", "failed">>, <<"retry", "canceled">>}

\* C4: for every current status (draft included) and every next status the
\* payment validator returns true exactly when the pair is in the
\* documented payment table, and false otherwise.
C4_PaymentTransitionTable ==
    (/\ call.fn = "validatePaymentStatusTransition"
     /\ call.currentStatus \in DisbursementStatuses)
        => call.outcome =
               Return(<<call.currentStatus, call.newStatus>> \in C4_Table, <<>>)

\* C4 witness: processing -> canceled was asked of the payment validator
\* and rejected, so the payment is still processing.
C4_Witness ==
    /\ call.fn = "validatePaymentStatusTransition"
    /\ call.currentStatus = "processing"
    /\ call.newStatus = "canceled"
    /\ call.outcome = Return(FALSE, <<>>)
    /\ paymentStatus = "processing"

\* C5: when the current status is not a key of the transition table the
\* validator returns false for every next status and does not raise.
C5_UnknownCurrentReturnsFalse ==
    /\ (call.fn = "validateDisbursementStatusTransition"
        /\ call.currentStatus \notin DOMAIN disbursementValidTransitions)
           => call.outcome = Return(FALSE, <<>>)
    /\ (call.fn = "validatePaymentStatusTransition"
        /\ call.currentStatus \notin DOMAIN paymentValidTransitions)
           => call.outcome = Return(FALSE, <<>>)

-----------------------------------------------------------------------------
(* Role catalogue and access checks.                                      *)

Warn(message) == <<"warn", message>>

Info(message) == <<"info", message>>

Error(message) == <<"error", message>>

defaultRole ==
    [displayName |-> "Unknown",
     description |-> "Unknown role with no permissions",
     permissions |-> <<>>,
     level       |-> 0]

\* getRoleInfo with manage_roles also in the business entry.
getRoleInfoBusinessManagesRoles(role) ==
    IF role = Some("owner") THEN
        Return([displayName |-> "Owner",
                description |-> "Full system access with all permissions",
                permissions |-> <<"manage_users", "manage_roles",
                                  "manage_disbursements", "manage_payments",
                                  "manage_wallets", "manage_assets",
                                  "view_analytics", "manage_settings",
                                  "manage_api_keys", "manage_organization">>,
                level |-> 100], <<>>)
    ELSE IF role = Some("business") THEN
        Return([displayName |-> "Business User",
                description |-> "Business operations with limited administrative access",
                permissions |-> <<"manage_disbursements", "manage_payments",
                                  "view_receivers", "view_analytics",
                                  "manage_api_keys", "view_settings",
                                  "manage_roles">>,
                level |-> 75], <<>>)
    ELSE IF role = Some("developer") THEN
        Return([displayName |-> "Developer",
                description |-> "Technical access for development and integration",
                permissions |-> <<"manage_api_keys", "view_disbursements",
                                  "view_payments", "view_analytics",
                                  "manage_integrations", "view_settings">>,
                level |-> 60], <<>>)
    ELSE IF role = Some("financial_controller") THEN
        Return([displayName |-> "Financial Controller",
                description |-> "Financial oversight and control permissions",
                permissions |-> <<"view_disbursements", "view_payments",
                                  "view_receivers", "view_analytics",
                                  "approve_payments", "view_financial_reports",
                                  "manage_payment_limits">>,
                level |-> 80], <<>>)
    ELSE Return(defaultRole, <<Warn("Unknown user role encountered")>>)

\* getRoleInfo whose default case hands out the developer entry.
getRoleInfoDefaultIsDeveloper(role) ==
    IF role \in {Some("owner"), Some("business"), Some("financial_controller")}
    THEN getRoleInfoBusinessManagesRoles(role)
    ELSE Return([displayName |-> "Developer",
                 description |-> "Technical access for development and integration",
                 permissions |-> <<"manage_api_keys", "view_disbursements",
                                   "view_payments", "view_analytics",
                                   "manage_integrations", "view_settings">>,
                 level |-> 60], <<>>)

getRoleInfo(role) ==
    IF role = Some("owner") THEN
        Return([displayName |-> "Owner",
                description |-> "Full system access with all permissions",
                permissions |-> <<"manage_users", "manage_roles",
                                  "manage_disbursements", "manage_payments",
                                  "manage_wallets", "manage_assets",
                                  "view_analytics", "manage_settings",
                                  "manage_api_keys", "manage_organization">>,
                level |-> 100], <<>>)
    ELSE IF role = Some("business") THEN
        Return([displayName |-> "Business User",
                description |-> "Business operations with limited administrative access",
                permissions |-> <<"manage_disbursements", "manage_payments",
                                  "view_receivers", "view_analytics",
                                  "manage_api_keys", "view_settings">>,
                level |-> 75], <<>>)
    ELSE IF role = Some("developer") THEN
        Return([displayName |-> "Developer",
                description |-> "Technical access for development and integration",
                permissions |-> <<"manage_api_keys", "view_disbursements",
                                  "view_payments", "view_analytics",
                                  "manage_integrations", "view_settings">>,
                level |-> 60], <<>>)
    ELSE IF role = Some("financial_controller") THEN
        Return([displayName |-> "Financial Controller",
                description |-> "Financial oversight and control permissions",
                permissions |-> <<"view_disbursements", "view_payments",
                                  "view_receivers", "view_analytics",
                                  "approve_payments", "view_financial_reports",
                                  "manage_payment_limits">>,
                level |-> 80], <<>>)
    ELSE Return(defaultRole, <<Warn("Unknown user role encountered")>>)

hasPermission(role, permission) ==
    LET roleInfo == getRoleInfo(role)
    IN  Return(Includes(roleInfo.value.permissions, permission), roleInfo.logs)

\* permissions.some(p => roleInfo.permissions.includes(p))
hasAnyPermission(role, permissions) ==
    LET roleInfo == getRoleInfo(role)
    IN  Return(\E i \in 1..Len(permissions) :
                   Includes(roleInfo.value.permissions, permissions[i]),
               roleInfo.logs)

\* permissions.every(p => roleInfo.permissions.includes(p))
hasAllPermissions(role, permissions) ==
    LET roleInfo == getRoleInfo(role)
    IN  Return(\A i \in 1..Len(permissions) :
                   Includes(roleInfo.value.permissions, permissions[i]),
               roleInfo.logs)

\* validateRoleChangePermission without its first check.
validateRoleChangePermissionNoManageCheck(currentUserRole, newRole) ==
    LET currentRoleInfo == getRoleInfo(currentUserRole)
        newRoleInfo     == getRoleInfo(newRole)
        logs            == currentRoleInfo.logs \o newRoleInfo.logs
    IN  IF newRoleInfo.value.level > currentRoleInfo.value.level
        THEN Return([isValid |-> FALSE,
                     reason  |-> Some("Cannot assign a role with higher permissions than your own")],
                    logs)
        ELSE IF newRole = Some("owner") /\ currentUserRole # Some("owner")
        THEN Return([isValid |-> FALSE,
                     reason  |-> Some("Only existing owners can assign owner role")],
                    logs)
        ELSE Return([isValid |-> TRUE, reason |-> Undefined], logs)

validateRoleChangePermission(currentUserRole, newRole) ==
    LET currentRoleInfo == getRoleInfo(currentUserRole)
        newRoleInfo     == getRoleInfo(newRole)
        logs            == currentRoleInfo.logs \o newRoleInfo.logs
    IN  IF ~Includes(currentRoleInfo.value.permissions, "manage_roles")
        THEN Return([isValid |-> FALSE,
                     reason  |-> Some("Insufficient permissions to manage user roles")],
                    logs)
        ELSE IF newRoleInfo.value.level > currentRoleInfo.value.level
        THEN Return([isValid |-> FALSE,
                     reason  |-> Some("Cannot assign a role with higher permissions than your own")],
                    logs)
        ELSE IF newRole = Some("owner") /\ currentUserRole # Some("owner")
        THEN Return([isValid |-> FALSE,
                     reason  |-> Some("Only existing owners can assign owner role")],
                    logs)
        ELSE Return([isValid |-> TRUE, reason |-> Undefined], logs)

\* A role argument: one of the four roles of the catalogue, a string that
\* is no role, or an absent role.
RoleInputs ==
    {Undefined} \cup
    {Some(r) : r \in {"owner", "business", "developer", "financial_controller", "guest"}}

\* Longest permission list passed to hasAnyPermission / hasAllPermissions.
MaxPermissions == 2

\* Lists of up to MaxPermissions names, held and not held by the roles
PermissionLists ==
    UNION {[1..n -> {"manage_roles", "manage_api_keys", "view_analytics",
                     "view_settings", "approve_payments", "delete_organization"}] :
            n \in 0..MaxPermissions}

GetRoleInfo ==
    /\ call = NoCall
    /\ \E role \in RoleInputs :
        call' = [fn |-> "getRoleInfo", role |-> role,
                 outcome |-> getRoleInfo(role)]
    /\ UNCHANGED <<disbursementStatus, paymentStatus,
                 mutation, refresh, session, download, monitor>>

HasPermission ==
    LET \* Every permission name of the catalogue and one name no role holds.
        PermissionStrings ==
            {"manage_users", "manage_roles", "manage_disbursements", "manage_payments",
             "manage_wallets", "manage_assets", "view_analytics", "manage_settings",
             "manage_api_keys", "manage_organization", "view_receivers", "view_settings",
             "view_disbursements", "view_payments", "manage_integrations",
             "approve_payments", "view_financial_reports", "manage_payment_limits",
             "delete_organization"}
    IN
    /\ call = NoCall
    /\ \E role \in RoleInputs, permission \in PermissionStrings :
        call' = [fn |-> "hasPermission", role |-> role,
                 permission |-> permission,
                 outcome |-> hasPermission(role, permission)]
    /\ UNCHANGED <<disbursementStatus, paymentStatus,
                 mutation, refresh, session, download, monitor>>

HasAnyPermission ==
    /\ call = NoCall
    /\ \E role \in RoleInputs, permissions \in PermissionLists :
        call' = [fn |-> "hasAnyPermission", role |-> role,
                 permissions |-> permissions,
                 outcome |-> hasAnyPermission(role, permissions)]
    /\ UNCHANGED <<disbursementStatus, paymentStatus,
                 mutation, refresh, session, download, monitor>>

HasAllPermissions ==
    /\ call = NoCall
    /\ \E role \in RoleInputs, permissions \in PermissionLists :
        call' = [fn |-> "hasAllPermissions", role |-> role,
                 permissions |-> permissions,
                 outcome |-> hasAllPermissions(role, permissions)]
    /\ UNCHANGED <<disbursementStatus, paymentStatus,
                 mutation, refresh, session, download, monitor>>

ValidateRoleChangePermission ==
    /\ call = NoCall
    /\ \E currentUserRole \in RoleInputs, newRole \in RoleInputs :
        call' = [fn |-> "validateRoleChangePermission",
                 currentUserRole |-> currentUserRole, newRole |-> newRole,
                 outcome |-> validateRoleChangePermission(currentUserRole, newRole)]
    /\ UNCHANGED <<disbursementStatus, paymentStatus,
                 mutation, refresh, session, download, monitor>>

\* No helper has been called and nothing is in flight.
Init ==
    /\ call = NoCall
    /\ disbursementStatus = "draft"
    /\ paymentStatus = "pending"
    /\ mutation = [pc |-> "idle"]
    /\ refresh = [pc |-> "idle"]
    /\ session = [pc |-> "idle", token |-> Undefined, dispatched |-> <<>>]
    /\ download = [pc |-> "idle"]
    /\ monitor = [marks |-> <<>>, metrics |-> <<>>, now |-> 1, calls |-> <<>>]

NextAccess ==
    \/ GetRoleInfo
    \/ HasPermission
    \/ HasAnyPermission
    \/ HasAllPermissions
    \/ ValidateRoleChangePermission

SpecAccess == Init /\ [][NextAccess]_vars

-----------------------------------------------------------------------------
(* Claims about the access checks, under SpecAccess.                      *)

KnownRoles ==
    {Some("owner"), Some("business"), Some("developer"),
     Some("financial_controller")}

\* The documented rank of a role; an unknown or absent role has rank 0.
C1_Rank(role) ==
    CASE role = Some("owner")                -> 100
      [] role = Some("financial_controller") -> 80
      [] role = Some("business")             -> 75
      [] role = Some("developer")            -> 60
      [] OTHER                               -> 0

C1_Denied(actingRole, targetRole) ==
    \/ ~Includes(getRoleInfo(actingRole).value.permissions, "manage_roles")
    \/ C1_Rank(targetRole) > C1_Rank(actingRole)
    \/ (targetRole = Some("owner") /\ actingRole # Some("owner"))

\* C1: for every acting and target role, validateRoleChangePermission
\* denies when the acting role lacks manage_roles, when the target's rank
\* exceeds the acting role's rank (owner 100 > financial_controller 80 >
\* business 75 > developer 60), or when owner is assigned by a non-owner,
\* and allows in every other case.
C1_CanAssignRole ==
    /\ call.fn = "validateRoleChangePermission"
        => /\ ~call.outcome.threw
           /\ call.outcome.value.isValid =
                  ~C1_Denied(call.currentUserRole, call.newRole)
    /\ call.fn = "getRoleInfo"
        => call.outcome.value.level = C1_Rank(call.role)

\* C1 witness: an owner assigning business was allowed.
C1_Witness ==
    /\ call.fn = "validateRoleChangePermission"
    /\ call.currentUserRole = Some("owner")
    /\ call.newRole = Some("business")
    /\ call.outcome.value.isValid

\* The parts of C6 that do not concern hasAllPermissions.
C6_Common ==
    /\ (call.fn = "getRoleInfo" /\ call.role \notin KnownRoles)
        => /\ ~call.outcome.threw
           /\ call.outcome.value.permissions = <<>>
           /\ call.outcome.value.level = 0
    /\ (call.fn \in {"hasPermission", "hasAnyPermission"}
        /\ call.role \notin KnownRoles)
        => (~call.outcome.threw /\ call.outcome.value = FALSE)
    /\ (call.fn = "validateRoleChangePermission"
        /\ call.currentUserRole \notin KnownRoles)
        => (~call.outcome.threw /\ call.outcome.value.isValid = FALSE)

\* C6 as stated: for an unknown or absent role getRoleInfo yields the
\* sentinel (no permissions, rank 0) and hasPermission, hasAnyPermission,
\* hasAllPermissions (for every permission argument) and the role change
\* check with that acting role all answer false without raising.
C6_Original ==
    /\ C6_Common
    /\ (call.fn = "hasAllPermissions" /\ call.role \notin KnownRoles)
        => (~call.outcome.threw /\ call.outcome.value = FALSE)

\* C6 amended: as stated, except that hasAllPermissions answers false for
\* every non-empty permission list and true for the empty list.
C6_UnknownRoleDenied ==
    /\ C6_Common
    /\ (call.fn = "hasAllPermissions" /\ call.role \notin KnownRoles)
        => /\ ~call.outcome.threw
           /\ call.outcome.value = (call.permissions = <<>>)

\* C6 witness: hasAllPermissions was asked of an absent role with a
\* non-empty list and answered false.
C6_Witness ==
    /\ call.fn = "hasAllPermissions"
    /\ call.role = Undefined
    /\ call.permissions = <<"manage_roles", "view_analytics">>
    /\ call.outcome.value = FALSE

-----------------------------------------------------------------------------
(* Record formatters: disbursements.                                      *)

\* A name is a string held as its sequence of characters, so that trim()
\* is computed and not assumed.
Whitespace == {" ", "\t", "\n", "\r"}

\* String.prototype.trim: the text without the whitespace at its start
\* and at its end
Trim(chars) ==
    LET RECURSIVE TrimStart(_)
        TrimStart(text) ==
            IF text # <<>> /\ Head(text) \in Whitespace THEN TrimStart(Tail(text))
            ELSE text
        RECURSIVE TrimEnd(_)
        TrimEnd(text) ==
            IF text # <<>> /\ text[Len(text)] \in Whitespace
            THEN TrimEnd(SubSeq(text, 1, Len(text) - 1))
            ELSE text
    IN  TrimEnd(TrimStart(chars))

\* !name for an optional name: undefined and the empty string are falsy.
FalsyName(o) == o = Undefined \/ o[1] = <<>>

\* The number NaN
NotANumber == Undefined

\* new Date(timestamp).getTime() of the timestamps the model uses, in
\* seconds (the source compares milliseconds; only the order matters):
\* NaN for a text that is no date.
DateGetTime(timestamp) ==
    CASE timestamp = "2024-01-01T00:00:00Z" -> Some(1704067200)
      [] timestamp = "2024-01-02T00:00:00Z" -> Some(1704153600)
      [] timestamp = "2024-01-03T00:00:00Z" -> Some(1704240000)
      [] OTHER -> NotANumber

\* (a, b) => new Date(b.timestamp).getTime() - new Date(a.timestamp).getTime()
\* and SortCompare of Array.prototype.sort: a NaN from the comparator
\* counts as +0.
SortCompare(a, b) ==
    LET timeA == DateGetTime(a.timestamp[1])
        timeB == DateGetTime(b.timestamp[1])
        newestFirst == IF timeA = NotANumber \/ timeB = NotANumber THEN NotANumber
                       ELSE Some(timeB[1] - timeA[1])
    IN  IF newestFirst = NotANumber THEN 0 ELSE newestFirst[1]

\* Array.prototype.filter(history => history.timestamp && history.status)
FilterHistory(entries) ==
    LET ValidHistoryEntry(history) ==
            ~FalsyString(history.timestamp) /\ ~FalsyString(history.status)
    IN  SelectSeq(entries, ValidHistoryEntry)

\* Array.prototype.sort (stable) with the newest-first comparator, when
\* the comparator is consistent on the entries: by insertion, each entry
\* going behind every entry that does not sort after it.
SortNewestFirst(entries) ==
    LET RECURSIVE InsertNewestFirst(_, _)
        InsertNewestFirst(sorted, entry) ==
            IF sorted = <<>> THEN <<entry>>
            ELSE IF SortCompare(Head(sorted), entry) > 0
                 THEN <<entry>> \o sorted
                 ELSE <<Head(sorted)>> \o InsertNewestFirst(Tail(sorted), entry)
        RECURSIVE SortNewestFirstFrom(_, _)
        SortNewestFirstFrom(sorted, rest) ==
            IF rest = <<>> THEN sorted
            ELSE SortNewestFirstFrom(InsertNewestFirst(sorted, Head(rest)), Tail(rest))
    IN  SortNewestFirstFrom(<<>>, entries)

\* What Array.prototype.sort may leave: the stable sorted order, or, with
\* a comparator that is not consistent, an order the engine defines (any
\* order of the entries). The comparator is consistent on the entries
\* when comparing equal is transitive: it is not when an entry without a
\* date compares equal to two entries of different dates.
SortOutcomes(entries) ==
    LET consistent ==
            \A i, j, k \in 1..Len(entries) :
                SortCompare(entries[i], entries[j]) = 0 /\ SortCompare(entries[j], entries[k]) = 0
                => SortCompare(entries[i], entries[k]) = 0
        orders ==
            {[i \in 1..Len(entries) |-> entries[order[i]]] :
                order \in {f \in [1..Len(entries) -> 1..Len(entries)] :
                              \A i, j \in 1..Len(entries) : f[i] = f[j] => i = j}}
    IN  IF consistent THEN {SortNewestFirst(entries)} ELSE orders

\* status_history?.filter(...).sort(...).map(...) || []  of a disbursement
DisbursementHistoryModel(kept) ==
    [i \in 1..Len(kept) |->
        [status    |-> kept[i].status,
         timestamp |-> kept[i].timestamp,
         userId    |-> kept[i].user_id]]

\* user?.first_name && user?.last_name ? `${first} ${last}` : undefined
DisplayName(user) ==
    IF /\ user # Undefined
       /\ ~FalsyString(user[1].first_name)
       /\ ~FalsyString(user[1].last_name)
    THEN Some(user[1].first_name[1] \o " " \o user[1].last_name[1])
    ELSE Undefined

\* !obj?.id || !obj?.name-like test on an optional object of two strings
MissingPair(o, first, second) ==
    \/ o = Undefined
    \/ FalsyString(o[1][first])
    \/ FalsyString(o[1][second])

\* The model formatDisbursement returns once the required fields are there.
DisbursementModel(disbursement) ==
    LET DisbursementStatusHistory(status_history) ==
            IF status_history = Undefined THEN <<>>
            ELSE DisbursementHistoryModel(SortNewestFirst(FilterHistory(status_history[1])))
    IN
    [id        |-> disbursement.id[1],
     name      |-> disbursement.name[1],
     createdAt |-> disbursement.created_at,
     createdBy |-> DisplayName(disbursement.created_by),
     startedBy |-> DisplayName(disbursement.started_by),
     stats     |->
        [paymentsSuccessfulCount |-> NumberOrZero(disbursement.total_payments_sent),
         paymentsFailedCount     |-> NumberOrZero(disbursement.total_payments_failed),
         paymentsCanceledCount   |-> NumberOrZero(disbursement.total_payments_canceled),
         paymentsRemainingCount  |-> NumberOrZero(disbursement.total_payments_remaining),
         paymentsTotalCount      |-> NumberOrZero(disbursement.total_payments),
         totalAmount             |-> NumberOrZero(disbursement.total_amount),
         disbursedAmount         |-> NumberOrZero(disbursement.amount_disbursed),
         averagePaymentAmount    |-> NumberOrZero(disbursement.average_amount)],
     status    |-> disbursement.status,
     registrationContactType |-> disbursement.registration_contact_type,
     asset     |-> [id   |-> disbursement.asset[1].id[1],
                    code |-> disbursement.asset[1].code[1]],
     wallet    |-> [id   |-> disbursement.wallet[1].id[1],
                    name |-> disbursement.wallet[1].name[1]],
     verificationField |-> disbursement.verification_field,
     fileName  |-> disbursement.file_name,
     statusHistory |-> DisbursementStatusHistory(disbursement.status_history),
     receiverRegistrationMessageTemplate |->
         disbursement.receiver_registration_message_template]

\* The warnings of the two statistics checks, in the order they are made.
DisbursementStatsWarnings(disbursement) ==
    LET totalPayments      == NumberOrZero(disbursement.total_payments)
        successfulPayments == NumberOrZero(disbursement.total_payments_sent)
        failedPayments     == NumberOrZero(disbursement.total_payments_failed)
        canceledPayments   == NumberOrZero(disbursement.total_payments_canceled)
        remainingPayments  == NumberOrZero(disbursement.total_payments_remaining)
        calculatedTotal    == successfulPayments + failedPayments
                                  + canceledPayments + remainingPayments
        totalAmount        == NumberOrZero(disbursement.total_amount)
        disbursedAmount    == NumberOrZero(disbursement.amount_disbursed)
    IN  (IF totalPayments # calculatedTotal
         THEN <<Warn("Disbursement payment statistics mismatch")>> ELSE <<>>)
        \o
        (IF totalAmount > 0 /\ disbursedAmount > totalAmount
         THEN <<Warn("Disbursed amount exceeds total amount")>> ELSE <<>>)

FailedToFormatDisbursement == Error("Failed to format disbursement")

\* formatDisbursement that tests the name for emptiness without trimming.
formatDisbursementNoTrim(disbursement) ==
    IF FalsyString(disbursement.id)
    THEN Throw("Disbursement ID is required",
               <<Warn("Disbursement missing ID"), FailedToFormatDisbursement>>)
    ELSE IF FalsyName(disbursement.name)
    THEN Throw("Disbursement name is required",
               <<Warn("Disbursement missing name"), FailedToFormatDisbursement>>)
    ELSE IF MissingPair(disbursement.asset, "id", "code")
    THEN Throw("Disbursement asset information is required",
               <<Warn("Disbursement missing asset information"),
                 FailedToFormatDisbursement>>)
    ELSE IF MissingPair(disbursement.wallet, "id", "name")
    THEN Throw("Disbursement wallet information is required",
               <<Warn("Disbursement missing wallet information"),
                 FailedToFormatDisbursement>>)
    ELSE Return(DisbursementModel(disbursement),
                DisbursementStatsWarnings(disbursement)
                    \o <<Info("Disbursement formatted successfully")>>)

\* formatDisbursement that raises where the source only warns.
formatDisbursementStrictStats(disbursement) ==
    LET lenient == formatDisbursementNoTrim(disbursement)
    IN  IF ~lenient.threw /\ DisbursementStatsWarnings(disbursement) # <<>>
        THEN Throw("Disbursement statistics are inconsistent",
                   DisbursementStatsWarnings(disbursement)
                       \o <<FailedToFormatDisbursement>>)
        ELSE lenient

formatDisbursement(disbursement) ==
    IF FalsyString(disbursement.id)
    THEN Throw("Disbursement ID is required",
               <<Warn("Disbursement missing ID"), FailedToFormatDisbursement>>)
    ELSE IF FalsyName(disbursement.name) \/ Trim(disbursement.name[1]) = <<>>
    THEN Throw("Disbursement name is required",
               <<Warn("Disbursement missing name"), FailedToFormatDisbursement>>)
    ELSE IF MissingPair(disbursement.asset, "id", "code")
    THEN Throw("Disbursement asset information is required",
               <<Warn("Disbursement missing asset information"),
                 FailedToFormatDisbursement>>)
    ELSE IF MissingPair(disbursement.wallet, "id", "name")
    THEN Throw("Disbursement wallet information is required",
               <<Warn("Disbursement missing wallet information"),
                 FailedToFormatDisbursement>>)
    ELSE Return(DisbursementModel(disbursement),
                DisbursementStatsWarnings(disbursement)
                    \o <<Info("Disbursement formatted successfully")>>)

\* The outcomes of formatDisbursement(disbursement): one, unless the sort
\* of the status history runs with a comparator that is not consistent.
formatDisbursementOutcomes(disbursement) ==
    LET outcome == formatDisbursement(disbursement)
    IN  IF outcome.threw \/ disbursement.status_history = Undefined THEN {outcome}
        ELSE {[outcome EXCEPT !.value.statusHistory = DisbursementHistoryModel(kept)] :
                kept \in SortOutcomes(FilterHistory(disbursement.status_history[1]))}

\* disbursements.map(formatDisbursement) up to the first record that
\* raises: the models so far, the lines logged, and the error if any.
RECURSIVE MapFormatDisbursement(_, _, _)
MapFormatDisbursement(disbursements, models, logs) ==
    IF disbursements = <<>> THEN Return(models, logs)
    ELSE LET one == formatDisbursement(Head(disbursements))
         IN  IF one.threw THEN Throw(one.error, logs \o one.logs)
             ELSE MapFormatDisbursement(Tail(disbursements),
                                        Append(models, one.value),
                                        logs \o one.logs)

formatDisbursements(disbursements) ==
    LET mapped == MapFormatDisbursement(disbursements, <<>>, <<>>)
    IN  IF mapped.threw
        THEN Throw(mapped.error,
                   mapped.logs \o <<Error("Failed to format disbursements")>>)
        ELSE Return(mapped.value,
                    mapped.logs \o <<Info("Disbursements formatted successfully")>>)

-----------------------------------------------------------------------------
(* Record formatters: payments.                                           *)

\* status_history?.filter(...).sort(...).map(...) || []  of a payment
PaymentHistoryModel(kept) ==
    [i \in 1..Len(kept) |->
        [updatedAt |-> kept[i].timestamp,
         message   |-> IF FalsyString(kept[i].status_message)
                       THEN "Status updated"
                       ELSE kept[i].status_message[1],
         status    |-> kept[i].status]]

\* obj?.field of an optional object
OptionalField(o, field) == IF o = Undefined THEN Undefined ELSE o[1][field]

\* obj?.field || fallback  for an optional string field
StringOr(o, field, fallback) ==
    IF FalsyString(OptionalField(o, field)) THEN fallback
    ELSE OptionalField(o, field)[1]

PaymentDetailsModel(payment) ==
    LET PaymentStatusHistory(status_history) ==
            IF status_history = Undefined THEN <<>>
            ELSE PaymentHistoryModel(SortNewestFirst(FilterHistory(status_history[1])))
    IN
    [id               |-> payment.id[1],
     createdAt        |-> payment.created_at,
     disbursementName |-> StringOr(payment.disbursement, "name", "Direct Payment"),
     disbursementId   |-> StringOr(payment.disbursement, "id", ""),
     receiverId       |-> OptionalField(OptionalField(payment.receiver_wallet, "receiver"), "id"),
     receiverWalletId |-> OptionalField(payment.receiver_wallet, "id"),
     transactionId    |-> payment.stellar_transaction_id,
     senderAddress    |-> payment.stellar_address,
     totalAmount      |-> payment.amount[1],
     assetCode        |-> payment.asset[1].code[1],
     externalPaymentId       |-> payment.external_payment_id,
     circleTransferRequestId |-> payment.circle_transfer_request_id,
     status           |-> payment.status,
     statusHistory    |-> PaymentStatusHistory(payment.status_history)]

FailedToFormatPayment == Error("Failed to format payment details")

\* formatPaymentDetails with the amount check made before the id check.
formatPaymentDetailsAmountFirst(payment) ==
    IF FalsyNumber(payment.amount) \/ payment.amount[1] <= 0
    THEN Throw("Payment amount must be greater than 0",
               <<Warn("Invalid payment amount"), FailedToFormatPayment>>)
    ELSE IF FalsyString(payment.id)
    THEN Throw("Payment ID is required",
               <<Warn("Payment missing ID"), FailedToFormatPayment>>)
    ELSE IF FalsyString(OptionalField(payment.asset, "code"))
    THEN Throw("Payment asset code is required",
               <<Warn("Payment missing asset code"), FailedToFormatPayment>>)
    ELSE Return(PaymentDetailsModel(payment),
                <<Info("Payment details formatted successfully")>>)

formatPaymentDetails(payment) ==
    IF FalsyString(payment.id)
    THEN Throw("Payment ID is required",
               <<Warn("Payment missing ID"), FailedToFormatPayment>>)
    ELSE IF FalsyNumber(payment.amount) \/ payment.amount[1] <= 0
    THEN Throw("Payment amount must be greater than 0",
               <<Warn("Invalid payment amount"), FailedToFormatPayment>>)
    ELSE IF FalsyString(OptionalField(payment.asset, "code"))
    THEN Throw("Payment asset code is required",
               <<Warn("Payment missing asset code"), FailedToFormatPayment>>)
    ELSE Return(PaymentDetailsModel(payment),
                <<Info("Payment details formatted successfully")>>)

\* The outcomes of formatPaymentDetails(payment), as for disbursements
formatPaymentDetailsOutcomes(payment) ==
    LET outcome == formatPaymentDetails(payment)
    IN  IF outcome.threw \/ payment.status_history = Undefined THEN {outcome}
        ELSE {[outcome EXCEPT !.value.statusHistory = PaymentHistoryModel(kept)] :
                kept \in SortOutcomes(FilterHistory(payment.status_history[1]))}

-----------------------------------------------------------------------------
(* The raw records the formatters are applied to.                         *)

\* Largest payment count of a raw disbursement.
MaxCount == 1

\* Largest amount of a raw disbursement or payment.
MaxAmount == 2

\* Longest status history of a raw record.
MaxHistory == 3

\* Longest list handed to formatDisbursements.
MaxBatch == 2

Optional(S) == {Undefined} \cup {Some(x) : x \in S}

Counts == Optional(0..MaxCount)

SeqsUpTo(S, n) == UNION {[1..k -> S] : k \in 0..n}

\* <<status, timestamp>> of history entries: complete ones with a date,
\* one with a timestamp that is a text but no date, and ones with a
\* missing or empty field
HistoryFields ==
    {<<Some(status), Some(timestamp)>> :
        status \in {"pending", "completed"},
        timestamp \in {"2024-01-01T00:00:00Z", "2024-01-02T00:00:00Z"}}
    \cup {<<Some("pending"), Some("n/a")>>,
          <<Undefined, Some("2024-01-02T00:00:00Z")>>,
          <<Some("completed"), Undefined>>,
          <<Some("pending"), Some("")>>}

\* A raw disbursement with every required field and consistent statistics.
ValidDisbursement ==
    [id         |-> Some("d1"),
     name       |-> Some(<<"R", "e", "l", "i", "e", "f">>),
     created_at |-> Some("2024-01-01T00:00:00Z"),
     created_by |-> Some([first_name |-> Some("Ada"), last_name |-> Some("Lovelace")]),
     started_by |-> Undefined,
     total_payments           |-> Some(1),
     total_payments_sent      |-> Some(1),
     total_payments_failed    |-> Some(0),
     total_payments_canceled  |-> Some(0),
     total_payments_remaining |-> Some(0),
     total_amount     |-> Some(2),
     amount_disbursed |-> Some(1),
     average_amount   |-> Some(1),
     status     |-> Some("processing"),
     registration_contact_type |-> Some("EMAIL"),
     asset      |-> Some([id |-> Some("a1"), code |-> Some("USDC")]),
     wallet     |-> Some([id |-> Some("w1"), name |-> Some("Vibrant")]),
     verification_field |-> Some("DATE_OF_BIRTH"),
     file_name  |-> Some("batch.csv"),
     status_history |-> Undefined,
     receiver_registration_message_template |-> Undefined]

\* The same record with statistics that trip both consistency warnings.
InconsistentDisbursement ==
    [ValidDisbursement EXCEPT !.total_payments = Some(1),
                              !.total_payments_sent = Some(1),
                              !.total_payments_failed = Some(1),
                              !.total_amount = Some(1),
                              !.amount_disbursed = Some(2)]

\* Raw disbursements: every combination of the required fields on each
\* of three statistics; every combination of the statistics, every status
\* history and every creator on a record with the required fields.
RawDisbursements ==
    LET Amounts == Optional(0..MaxAmount)
        \* The same record with no statistics at all.
        BareDisbursement ==
            [ValidDisbursement EXCEPT !.total_payments = Undefined,
                                      !.total_payments_sent = Undefined,
                                      !.total_payments_failed = Undefined,
                                      !.total_payments_canceled = Undefined,
                                      !.total_payments_remaining = Undefined,
                                      !.total_amount = Undefined,
                                      !.amount_disbursed = Undefined,
                                      !.average_amount = Undefined]
    IN
    LET ids == {Undefined, Some(""), Some("d1")}
        names == {Undefined, Some(<<>>), Some(<<" ", "\t">>), Some(<<" ", "R", " ">>),
                  Some(<<"R", "e", "l", "i", "e", "f">>)}
        pairs(first, second, value1, value2) ==
            {Undefined} \cup
            {Some(first :> a @@ second :> b) :
                a \in {Undefined, Some(value1)}, b \in {Undefined, Some(""), Some(value2)}}
        entries == {[status |-> fields[1], timestamp |-> fields[2],
                     user_id |-> Some("u1")] : fields \in HistoryFields}
        persons == {Undefined,
                    Some([first_name |-> Some("Ada"), last_name |-> Undefined]),
                    Some([first_name |-> Some("Ada"), last_name |-> Some("Lovelace")])}
    IN  {[base EXCEPT !.id = id, !.name = name, !.asset = asset, !.wallet = wallet] :
            base \in {ValidDisbursement, InconsistentDisbursement, BareDisbursement},
            id \in ids, name \in names,
            asset \in pairs("id", "code", "a1", "USDC"),
            wallet \in pairs("id", "name", "w1", "Vibrant")}
        \cup {[ValidDisbursement EXCEPT !.total_payments = total,
                                        !.total_payments_sent = sent,
                                        !.total_payments_failed = failed,
                                        !.total_payments_canceled = canceled,
                                        !.total_payments_remaining = remaining,
                                        !.total_amount = amount,
                                        !.amount_disbursed = disbursed,
                                        !.average_amount = average] :
                total \in Counts, sent \in Counts, failed \in Counts,
                canceled \in Counts, remaining \in Counts,
                amount \in Amounts, disbursed \in Amounts,
                average \in {Undefined, Some(1)}}
        \cup {[ValidDisbursement EXCEPT !.status_history = history] :
                history \in Optional(SeqsUpTo(entries, MaxHistory))}
        \cup {[ValidDisbursement EXCEPT !.created_by = person, !.started_by = person] :
                person \in persons}

\* Raw payments: every combination of the checked fields, and every
\* status history on a record with the checked fields.
RawPayments ==
    LET ValidPayment ==
            [id         |-> Some("p1"),
             created_at |-> Some("2024-01-01T00:00:00Z"),
             amount     |-> Some(1),
             asset      |-> Some([code |-> Some("USDC")]),
             disbursement    |-> Some([id |-> Some("d1"), name |-> Some("Relief")]),
             receiver_wallet |-> Some([id |-> Some("rw1"),
                                       receiver |-> Some([id |-> Some("r1")])]),
             stellar_transaction_id |-> Some("tx1"),
             stellar_address        |-> Some("GSENDER"),
             external_payment_id    |-> Undefined,
             circle_transfer_request_id |-> Undefined,
             status     |-> Some("pending"),
             status_history |-> Undefined]
    IN
    LET entries == {[status |-> fields[1], timestamp |-> fields[2],
                     status_message |-> Undefined] : fields \in HistoryFields}
    IN  {[ValidPayment EXCEPT !.id = id, !.amount = amount, !.asset = asset,
                              !.disbursement = disbursement,
                              !.receiver_wallet = receiver_wallet] :
            id \in {Undefined, Some(""), Some("p1")},
            amount \in Optional((-1)..MaxAmount),
            asset \in {Undefined, Some([code |-> Undefined]), Some([code |-> Some("")]),
                       Some([code |-> Some("USDC")])},
            disbursement \in {Undefined,
                              Some([id |-> Undefined, name |-> Undefined]),
                              Some([id |-> Some("d1"), name |-> Some("Relief")])},
            receiver_wallet \in {Undefined,
                                 Some([id |-> Some("rw1"), receiver |-> Undefined]),
                                 Some([id |-> Some("rw1"),
                                       receiver |-> Some([id |-> Some("r1")])])}}
        \cup {[ValidPayment EXCEPT !.status_history = history] :
                history \in Optional(SeqsUpTo(entries, MaxHistory))}

FormatDisbursement ==
    /\ call = NoCall
    /\ \E disbursement \in RawDisbursements :
        \E outcome \in formatDisbursementOutcomes(disbursement) :
            call' = [fn |-> "formatDisbursement", disbursement |-> disbursement,
                     outcome |-> outcome]
    /\ UNCHANGED <<disbursementStatus, paymentStatus,
                 mutation, refresh, session, download, monitor>>

FormatDisbursements ==
    LET \* The records the batches are made of: two that format and two that do not.
        BatchDisbursements ==
            {ValidDisbursement,
             [InconsistentDisbursement EXCEPT !.id = Some("d2"), !.status = Some("completed")],
             [ValidDisbursement EXCEPT !.id = Undefined],
             [ValidDisbursement EXCEPT !.id = Some("d3"), !.name = Some(<<" ">>)]}
    IN
    /\ call = NoCall
    /\ \E disbursements \in SeqsUpTo(BatchDisbursements, MaxBatch) :
        call' = [fn |-> "formatDisbursements", disbursements |-> disbursements,
                 outcome |-> formatDisbursements(disbursements)]
    /\ UNCHANGED <<disbursementStatus, paymentStatus,
                 mutation, refresh, session, download, monitor>>

FormatPaymentDetails ==
    /\ call = NoCall
    /\ \E payment \in RawPayments :
        \E outcome \in formatPaymentDetailsOutcomes(payment) :
            call' = [fn |-> "formatPaymentDetails", payment |-> payment,
                     outcome |-> outcome]
    /\ UNCHANGED <<disbursementStatus, paymentStatus,
                 mutation, refresh, session, download, monitor>>

\* No helper has been called yet; the two statuses are not used.
NextNormalize ==
    \/ FormatDisbursement
    \/ FormatDisbursements
    \/ FormatPaymentDetails

SpecNormalize == Init /\ [][NextNormalize]_vars

-----------------------------------------------------------------------------
(* Claims about the record formatters, under SpecNormalize.               *)

\* A string field counts as missing when it is absent or empty.
MissingString(o) == o = Undefined \/ o = Some("")

\* A name is missing or blank when it is absent or has no character that
\* is not white space.
BlankName(o) ==
    \/ o = Undefined
    \/ \A i \in 1..Len(o[1]) : o[1][i] \in Whitespace

MissingAsset(d) ==
    \/ d.asset = Undefined
    \/ MissingString(d.asset[1].id)
    \/ MissingString(d.asset[1].code)

MissingWallet(d) ==
    \/ d.wallet = Undefined
    \/ MissingString(d.wallet[1].id)
    \/ MissingString(d.wallet[1].name)

PassesFatalChecks(d) ==
    /\ ~MissingString(d.id)
    /\ ~BlankName(d.name)
    /\ ~MissingAsset(d)
    /\ ~MissingWallet(d)

\* The models of the records of a list that format, in the list's order.
RECURSIVE C7_Normalized(_)
C7_Normalized(disbursements) ==
    IF disbursements = <<>> THEN <<>>
    ELSE (IF formatDisbursement(Head(disbursements)).threw THEN <<>>
          ELSE <<formatDisbursement(Head(disbursements)).value>>)
         \o C7_Normalized(Tail(disbursements))

\* C7: formatDisbursements over a list of raw records is not aborted by a
\* record with a fatal error: it returns, and what it returns holds the
\* model of every record of the list that formats.
C7_BatchNotAborted ==
    call.fn = "formatDisbursements"
        => /\ ~call.outcome.threw
           /\ call.outcome.value = C7_Normalized(call.disbursements)

\* C8 as stated: for every payment record whose amount is absent or <= 0,
\* formatPaymentDetails fails with the invalid-amount error, whatever the
\* other fields are.
C8_Original ==
    (/\ call.fn = "formatPaymentDetails"
     /\ (call.payment.amount = Undefined \/ call.payment.amount[1] <= 0))
        => /\ call.outcome.threw
           /\ call.outcome.error = "Payment amount must be greater than 0"

\* C8 amended: for every payment record whose amount is absent or <= 0,
\* formatPaymentDetails fails whatever the other fields are; the failure
\* is the invalid-amount error when the record has an id, and the
\* missing-id error when it has none.
C8_NonPositiveAmountFails ==
    (/\ call.fn = "formatPaymentDetails"
     /\ (call.payment.amount = Undefined \/ call.payment.amount[1] <= 0))
        => /\ call.outcome.threw
           /\ call.outcome.error =
                  IF MissingString(call.payment.id)
                  THEN "Payment ID is required"
                  ELSE "Payment amount must be greater than 0"

\* C8 witness: a payment with an id, no asset and amount 0 was refused for
\* its amount.
C8_Witness ==
    /\ call.fn = "formatPaymentDetails"
    /\ call.payment.id = Some("p1")
    /\ call.payment.amount = Some(0)
    /\ call.payment.asset = Undefined
    /\ call.outcome.threw
    /\ call.outcome.error = "Payment amount must be greater than 0"

\* The error the documented order of the fatal checks yields.
C9_FirstError(d) ==
    IF MissingString(d.id) THEN "Disbursement ID is required"
    ELSE IF BlankName(d.name) THEN "Disbursement name is required"
    ELSE IF MissingAsset(d) THEN "Disbursement asset information is required"
    ELSE "Disbursement wallet information is required"

\* C9: formatDisbursement raises exactly when the id is missing, the name
\* missing or blank, the asset id or code missing, or the wallet id or
\* name missing; the error is the first of these in that order; when none
\* holds it returns a model.
C9_FatalChecks ==
    call.fn = "formatDisbursement"
        => /\ call.outcome.threw = ~PassesFatalChecks(call.disbursement)
           /\ call.outcome.threw
                => call.outcome.error = C9_FirstError(call.disbursement)
           /\ ~call.outcome.threw
                => call.outcome.value.id = call.disbursement.id[1]

\* C9 witness: a record with a white-space name and no wallet was refused
\* for its name.
C9_Witness ==
    /\ call.fn = "formatDisbursement"
    /\ call.disbursement.id = Some("d1")
    /\ call.disbursement.name = Some(<<" ", "\t">>)
    /\ call.disbursement.wallet = Undefined
    /\ call.outcome.threw
    /\ call.outcome.error = "Disbursement name is required"

\* An input count or amount as the Stats block is to hold it.
C10_Expected(o) == IF o = Undefined THEN 0 ELSE o[1]

C10_CountMismatch(d) ==
    C10_Expected(d.total_payments) #
        C10_Expected(d.total_payments_sent) + C10_Expected(d.total_payments_failed)
          + C10_Expected(d.total_payments_canceled)
          + C10_Expected(d.total_payments_remaining)

C10_Overdisbursed(d) ==
    /\ C10_Expected(d.total_amount) > 0
    /\ C10_Expected(d.amount_disbursed) > C10_Expected(d.total_amount)

\* C10: for every raw disbursement that passes the fatal checks,
\* formatDisbursement returns a model whose Stats fields equal the input
\* counts and amounts (absent ones are 0); a count-sum mismatch or a
\* disbursed amount above the total only adds a warning line.
C10_StatsRoundTrip ==
    (call.fn = "formatDisbursement" /\ PassesFatalChecks(call.disbursement))
        => LET d     == call.disbursement
               stats == call.outcome.value.stats
               logs  == call.outcome.logs
           IN  /\ ~call.outcome.threw
               /\ stats.paymentsTotalCount = C10_Expected(d.total_payments)
               /\ stats.paymentsSuccessfulCount = C10_Expected(d.total_payments_sent)
               /\ stats.paymentsFailedCount = C10_Expected(d.total_payments_failed)
               /\ stats.paymentsCanceledCount = C10_Expected(d.total_payments_canceled)
               /\ stats.paymentsRemainingCount = C10_Expected(d.total_payments_remaining)
               /\ stats.totalAmount = C10_Expected(d.total_amount)
               /\ stats.disbursedAmount = C10_Expected(d.amount_disbursed)
               /\ stats.averagePaymentAmount = C10_Expected(d.average_amount)
               /\ C10_CountMismatch(d)
                    <=> Includes(logs, Warn("Disbursement payment statistics mismatch"))
               /\ C10_Overdisbursed(d)
                    <=> Includes(logs, Warn("Disbursed amount exceeds total amount"))
               /\ \A i \in 1..Len(logs) : logs[i][1] # "error"

\* C10 witness: a record whose counts do not add up and whose disbursed
\* amount exceeds its total was formatted, with both warnings.
C10_Witness ==
    /\ call.fn = "formatDisbursement"
    /\ PassesFatalChecks(call.disbursement)
    /\ C10_CountMismatch(call.disbursement)
    /\ C10_Overdisbursed(call.disbursement)
    /\ ~call.outcome.threw
    /\ call.outcome.value.stats.disbursedAmount = 2
    /\ Len(call.outcome.logs) = 3

-----------------------------------------------------------------------------
(* CSV aggregation: text handling.                                        *)

\* A CSV text, a line and a cell are strings held as sequences of
\* characters, so that split() and trim() are computed.

\* String.prototype.split(sep) for a one-character separator
Split(chars, sep) ==
    LET RECURSIVE SplitFrom(_, _)
        SplitFrom(rest, current) ==
            IF rest = <<>> THEN <<current>>
            ELSE IF Head(rest) = sep
                 THEN <<current>> \o SplitFrom(Tail(rest), <<>>)
                 ELSE SplitFrom(Tail(rest), Append(current, Head(rest)))
    IN  SplitFrom(chars, <<>>)

\* Array.prototype.map(v => v.trim())
MapTrim(cells) == [i \in 1..Len(cells) |-> Trim(cells[i])]

\* line => line.trim() !== ''
NonBlankLine(line) == Trim(line) # <<>>

\* csv.split("\n").filter(line => line.trim() !== '')
CsvLines(csvContent) == SelectSeq(Split(csvContent, "\n"), NonBlankLine)

\* Array.prototype.indexOf falling back to the first column.
IndexOfOrFirst(columns, name) == 0

\* Array.prototype.indexOf: the zero-based index of the first equal
\* element, or -1.
IndexOf(columns, name) ==
    LET hits == {i \in 1..Len(columns) : columns[i] = name}
    IN  IF hits = {} THEN -1
        ELSE (CHOOSE i \in hits : \A j \in hits : i <= j) - 1

\* The text of a character sequence, for template literals
RECURSIVE Text(_)
Text(chars) == IF chars = <<>> THEN "" ELSE Head(chars) \o Text(Tail(chars))

-----------------------------------------------------------------------------
(* CSV aggregation: decimal arithmetic of bignumber.js.                   *)

\* A BigNumber is held exactly: [nan, negative, limbs] where limbs is
\* <<integer part, f1, f2, ...>> and f1, f2, ... are the decimal places
\* of the magnitude in groups of five digits: the four groups of the
\* twenty places a division keeps, and further groups only up to the
\* last one that is not zero.
LimbBase == 100000
LimbDigits == 5
FractionLimbs == 4

\* Limbs without the zero groups that follow the last non-zero group
\* past the twentieth place
StripLimbs(limbs) ==
    LET kept == {FractionLimbs + 1} \cup {k \in 1..Len(limbs) : limbs[k] # 0}
    IN  SubSeq(limbs, 1, CHOOSE k \in kept : \A j \in kept : j <= k)

\* The k-th limb of a magnitude, zero past its last place
LimbAt(limbs, k) == IF k <= Len(limbs) THEN limbs[k] ELSE 0

BigNumberZero == [nan |-> FALSE, negative |-> FALSE, limbs |-> <<0, 0, 0, 0, 0>>]

\* new BigNumber(string) for plain decimal notation,
\* -?(\d+(\.\d*)?|\.\d+); every other text is NaN. The constructor keeps
\* every decimal place of the text.
BigNumber(chars) ==
    LET DigitChars == <<"0", "1", "2", "3", "4", "5", "6", "7", "8", "9">>
    IN
    LET negative == chars # <<>> /\ Head(chars) = "-"
        body == IF negative THEN Tail(chars) ELSE chars
        dots == {i \in 1..Len(body) : body[i] = "."}
        dot == IF dots = {} THEN Len(body) + 1
               ELSE CHOOSE i \in dots : \A j \in dots : i <= j
        integer == SubSeq(body, 1, dot - 1)
        fraction == SubSeq(body, dot + 1, Len(body))
        AllDigits(text) ==
            \A i \in 1..Len(text) : \E d \in 1..Len(DigitChars) : DigitChars[d] = text[i]
        wellFormed == /\ AllDigits(integer)
                      /\ AllDigits(fraction)
                      /\ \/ integer # <<>>
                         \/ dots # {} /\ fraction # <<>>
        DigitValue(c) == (CHOOSE i \in 1..Len(DigitChars) : DigitChars[i] = c) - 1
        RECURSIVE DigitsValue(_)
        DigitsValue(digits) ==
            IF digits = <<>> THEN 0
            ELSE DigitsValue(SubSeq(digits, 1, Len(digits) - 1)) * 10
                 + DigitValue(digits[Len(digits)])
        \* the k-th group of five decimal places, zero padded
        FractionLimb(k) ==
            DigitsValue([i \in 1..LimbDigits |->
                IF LimbDigits * (k - 1) + i <= Len(fraction)
                THEN fraction[LimbDigits * (k - 1) + i] ELSE "0"])
        written == (Len(fraction) + LimbDigits - 1) \div LimbDigits
        groups == IF written > FractionLimbs THEN written ELSE FractionLimbs
    IN  IF ~wellFormed
        THEN [nan |-> TRUE, negative |-> FALSE, limbs |-> <<0, 0, 0, 0, 0>>]
        ELSE [nan |-> FALSE, negative |-> negative,
              limbs |-> StripLimbs(<<DigitsValue(integer)>> \o
                                   [k \in 1..groups |-> FractionLimb(k)])]

\* BigNumber.prototype.isNaN
IsNaN(x) == x.nan

\* BigNumber.prototype.isNegative answering false for every number.
IsNegativeNever(x) == FALSE

\* BigNumber.prototype.isNegative
IsNegative(x) == ~x.nan /\ x.negative

\* BigNumber.prototype.plus of two non-negative numbers: the exact sum,
\* added from the last place with carry.
Plus(x, y) ==
    LET places == IF Len(x.limbs) > Len(y.limbs) THEN Len(x.limbs) ELSE Len(y.limbs)
        RECURSIVE PlusLimbs(_, _)
        PlusLimbs(k, carry) ==
            LET sum == LimbAt(x.limbs, k) + LimbAt(y.limbs, k) + carry
            IN  IF k = 1 THEN <<sum>>
                ELSE Append(PlusLimbs(k - 1, sum \div LimbBase), sum % LimbBase)
    IN  [nan |-> FALSE, negative |-> FALSE,
         limbs |-> StripLimbs(PlusLimbs(places, 0))]

\* x < y for two non-negative numbers: the first differing limb decides
LessThan(x, y) ==
    \E k \in 1..(Len(x.limbs) + Len(y.limbs)) :
        /\ LimbAt(x.limbs, k) < LimbAt(y.limbs, k)
        /\ \A j \in 1..(k - 1) : LimbAt(x.limbs, j) = LimbAt(y.limbs, j)

\* BigNumber.prototype.dividedBy(n) of a non-negative number by a
\* positive integer: long division, the quotient rounded to the
\* library's default of twenty decimal places, half up.
DividedBy(x, n) ==
    LET places == IF Len(x.limbs) > FractionLimbs + 2 THEN Len(x.limbs)
                  ELSE FractionLimbs + 2
        \* <<limbs of the quotient, remainder>> after k limbs
        RECURSIVE DivideLimbs(_)
        DivideLimbs(k) ==
            IF k = 0 THEN <<(<<>>), 0>>
            ELSE LET before == DivideLimbs(k - 1)
                     dividend == before[2] * LimbBase + LimbAt(x.limbs, k)
                 IN  <<Append(before[1], dividend \div n), dividend % n>>
        digits == DivideLimbs(places)[1]
        quotient == [nan |-> FALSE, negative |-> FALSE,
                     limbs |-> SubSeq(digits, 1, FractionLimbs + 1)]
        lastPlace == [nan |-> FALSE, negative |-> FALSE, limbs |-> <<0, 0, 0, 0, 1>>]
    IN  IF 2 * digits[FractionLimbs + 2] >= LimbBase
        THEN Plus(quotient, lastPlace) ELSE quotient

\* BigNumber.prototype.decimalPlaces(): the places up to the last
\* non-zero one.
DecimalPlaces(x) ==
    LET RECURSIVE TrailingZeros(_, _)
        TrailingZeros(limb, digits) ==
            IF digits = 0 \/ limb % 10 # 0 THEN 0
            ELSE 1 + TrailingZeros(limb \div 10, digits - 1)
        RECURSIVE DecimalPlacesUpTo(_)
        DecimalPlacesUpTo(k) ==
            IF k = 0 THEN 0
            ELSE IF x.limbs[k + 1] = 0 THEN DecimalPlacesUpTo(k - 1)
                 ELSE LimbDigits * k - TrailingZeros(x.limbs[k + 1], LimbDigits)
    IN  DecimalPlacesUpTo(Len(x.limbs) - 1)

\* amounts.reduce((sum, amount) => sum.plus(amount), new BigNumber(0))
RECURSIVE SumAmounts(_)
SumAmounts(amounts) ==
    IF amounts = <<>> THEN BigNumberZero
    ELSE Plus(SumAmounts(SubSeq(amounts, 1, Len(amounts) - 1)),
              amounts[Len(amounts)])

\* BigNumber.minimum(...amounts) replaced by the first amount.
MinimumIsFirstAmount(amounts) == amounts[1]

\* BigNumber.minimum(...amounts) of a non-empty list
BigNumberMinimum(amounts) ==
    amounts[CHOOSE i \in 1..Len(amounts) :
                \A j \in 1..Len(amounts) : ~LessThan(amounts[j], amounts[i])]

\* BigNumber.maximum(...amounts) of a non-empty list
BigNumberMaximum(amounts) ==
    amounts[CHOOSE i \in 1..Len(amounts) :
                \A j \in 1..Len(amounts) : ~LessThan(amounts[i], amounts[j])]

-----------------------------------------------------------------------------
(* CSV aggregation: getCSVStatistics and csvTotalAmount.                  *)

\* logger.<level>(message, data, context): an entry that carries its data
LogData(level, message, data) == <<level, message, data>>

\* line.split(",").map(val => val.trim())[amountIndex]: undefined outside
\* the array
AmountValue(line, amountIndex) ==
    LET values == MapTrim(Split(line, ","))
    IN  IF amountIndex + 1 \in 1..Len(values) THEN Some(values[amountIndex + 1])
        ELSE Undefined

\* !amountValue || amountValue === ''
EmptyAmountValue(amountValue) ==
    amountValue = Undefined \/ amountValue[1] = <<>>

\* getCSVStatistics, the body of rows.forEach: the amounts pushed so far
\* and the count of invalid rows, after one more row.
StatisticsRow(acc, line, amountIndex) ==
    IF Trim(line) = <<>> THEN acc
    ELSE LET amountValue == AmountValue(line, amountIndex)
         IN  IF ~EmptyAmountValue(amountValue)
             THEN LET amount == BigNumber(amountValue[1])
                  IN  IF ~IsNaN(amount) /\ ~IsNegative(amount)
                      THEN [acc EXCEPT !.amounts = Append(@, amount)]
                      ELSE [acc EXCEPT !.invalidRows = @ + 1]
             ELSE [acc EXCEPT !.invalidRows = @ + 1]

\* rows.forEach of getCSVStatistics leaving the loop at the first invalid
\* row.
RECURSIVE StatisticsRowsUntilInvalid(_, _)
StatisticsRowsUntilInvalid(rows, amountIndex) ==
    IF rows = <<>> THEN [amounts |-> <<>>, invalidRows |-> 0]
    ELSE LET before == StatisticsRowsUntilInvalid(SubSeq(rows, 1, Len(rows) - 1),
                                                  amountIndex)
         IN  IF before.invalidRows > 0 THEN before
             ELSE StatisticsRow(before, rows[Len(rows)], amountIndex)

\* rows.forEach of getCSVStatistics
RECURSIVE StatisticsRows(_, _)
StatisticsRows(rows, amountIndex) ==
    IF rows = <<>> THEN [amounts |-> <<>>, invalidRows |-> 0]
    ELSE StatisticsRow(StatisticsRows(SubSeq(rows, 1, Len(rows) - 1), amountIndex),
                       rows[Len(rows)], amountIndex)

getCSVStatistics(csvContent, amountColumn) ==
    LET ZeroStatistics(rowCount, invalidRows) ==
            [rowCount |-> rowCount,
             totalAmount |-> BigNumberZero,
             averageAmount |-> BigNumberZero,
             minAmount |-> BigNumberZero,
             maxAmount |-> BigNumberZero,
             validRows |-> 0,
             invalidRows |-> invalidRows]
    IN
    LET lines == CsvLines(csvContent)
        header == Head(lines)
        rows == Tail(lines)
        columns == MapTrim(Split(header, ","))
        amountIndex == IndexOf(columns, amountColumn)
        scanned == StatisticsRows(rows, amountIndex)
        amounts == scanned.amounts
        totalAmount == SumAmounts(amounts)
    IN  IF Len(lines) < 2 THEN Return(ZeroStatistics(0, 0), <<>>)
        ELSE IF amountIndex = -1
        THEN Return(ZeroStatistics(Len(rows), Len(rows)), <<>>)
        ELSE IF Len(amounts) = 0
        THEN Return(ZeroStatistics(Len(rows), scanned.invalidRows), <<>>)
        ELSE Return([rowCount |-> Len(rows),
                     totalAmount |-> totalAmount,
                     averageAmount |-> DividedBy(totalAmount, Len(amounts)),
                     minAmount |-> BigNumberMinimum(amounts),
                     maxAmount |-> BigNumberMaximum(amounts),
                     validRows |-> Len(amounts),
                     invalidRows |-> scanned.invalidRows], <<>>)

\* csvTotalAmount, the body of rows.forEach for the row at the zero-based
\* index: the running total, the counts, the errors and the log.
TotalRow(acc, line, index, amountIndex, decimalPlaces) ==
    IF Trim(line) = <<>> THEN acc
    ELSE LET amountValue == AmountValue(line, amountIndex)
             amount == BigNumber(amountValue[1])
             RowError(text) == "Row " \o ToString(index + 2) \o ": " \o text
         IN  IF EmptyAmountValue(amountValue)
             THEN [acc EXCEPT !.invalidRows = @ + 1,
                              !.errors = Append(@, RowError("Empty amount value"))]
             ELSE IF IsNaN(amount)
             THEN [acc EXCEPT !.invalidRows = @ + 1,
                              !.errors = Append(@, RowError(
                                  "Invalid amount format: " \o Text(amountValue[1])))]
             ELSE IF IsNegative(amount)
             THEN [acc EXCEPT !.invalidRows = @ + 1,
                              !.errors = Append(@, RowError(
                                  "Negative amount: " \o Text(amountValue[1])))]
             ELSE [acc EXCEPT !.totalAmount = Plus(@, amount),
                              !.validRows = @ + 1,
                              !.logs = IF DecimalPlaces(amount) > decimalPlaces
                                       THEN Append(@, LogData("warn",
                                                "Amount exceeds decimal places limit",
                                                [row |-> index + 2]))
                                       ELSE @]

\* rows.forEach of csvTotalAmount
RECURSIVE TotalRows(_, _, _)
TotalRows(rows, amountIndex, decimalPlaces) ==
    IF rows = <<>>
    THEN [totalAmount |-> BigNumberZero, validRows |-> 0, invalidRows |-> 0,
          errors |-> <<>>, logs |-> <<>>]
    ELSE TotalRow(TotalRows(SubSeq(rows, 1, Len(rows) - 1), amountIndex, decimalPlaces),
                  rows[Len(rows)], Len(rows) - 1, amountIndex, decimalPlaces)

\* Default parameter values of csvTotalAmount and getCSVStatistics
DefaultColumnName == <<"a", "m", "o", "u", "n", "t">>
DefaultDecimalPlaces == 7

OrDefault(o, default) == IF o = Undefined THEN default ELSE o[1]

\* The length of errors.slice(0, 10)
MaxLoggedErrors == 10

\* csvTotalAmount({csvFile, columnName, decimalPlaces}): the promise
\* resolves with null or the total (Return) or is rejected (Throw).
\* A file is [readable, text]: an unreadable file fires reader.onerror.
csvTotalAmount(csvFile, columnName, decimalPlaces) ==
    LET csvRows == csvFile[1].text
        lines == CsvLines(csvRows)
        header == Head(lines)
        rows == Tail(lines)
        columns == MapTrim(Split(header, ","))
        amountIndex == IndexOf(columns, OrDefault(columnName, DefaultColumnName))
        scanned == TotalRows(rows, amountIndex,
                             OrDefault(decimalPlaces, DefaultDecimalPlaces))
        done == Append(scanned.logs,
                       LogData("info", "CSV total amount calculated successfully",
                               [totalAmount |-> scanned.totalAmount,
                                validRows |-> scanned.validRows,
                                invalidRows |-> scanned.invalidRows,
                                totalRows |-> Len(rows)]))
    IN  IF csvFile = Undefined THEN Return(Undefined, <<>>)
        ELSE IF ~csvFile[1].readable
        THEN Throw("read error", <<Error("Failed to read CSV file")>>)
        ELSE IF csvRows = <<>>
        THEN Return(Undefined, <<Warn("CSV file is empty")>>)
        ELSE IF Len(lines) < 2
        THEN Return(Undefined, <<Warn("CSV file has insufficient data")>>)
        ELSE IF amountIndex = -1
        THEN Return(Undefined, <<Warn("Amount column not found in CSV")>>)
        ELSE Return(Some(scanned.totalAmount),
                    IF scanned.invalidRows > 0
                    THEN Append(done, LogData("warn", "CSV processing completed with errors",
                                    [invalidRows |-> scanned.invalidRows,
                                     errors |-> SubSeq(scanned.errors, 1,
                                         IF Len(scanned.errors) < MaxLoggedErrors
                                         THEN Len(scanned.errors)
                                         ELSE MaxLoggedErrors)]))
                    ELSE done)

-----------------------------------------------------------------------------
(* CSV aggregation: inputs and calls.                                     *)

MaxRows == 3

\* Array.prototype.join(sep): the text that split(sep) takes apart
RECURSIVE Join(_, _)
Join(parts, sep) ==
    IF parts = <<>> THEN <<>>
    ELSE IF Len(parts) = 1 THEN parts[1]
    ELSE parts[1] \o <<sep>> \o Join(Tail(parts), sep)

HeaderAmountNote == <<"a", "m", "o", "u", "n", "t", ",", "n", "o", "t", "e">>

\* A data line "<cell>,x"
AmountLine(cell) == cell \o <<",", "x">>

\* The six-line example
CsvExample ==
    <<"a", "m", "o", "u", "n", "t", ",", "n", "o", "t", "e", "\n", "1", "0", ".", "1", "2", "3", "4", "5", "6", "7", ",", "a", "\n", "-", "5", ",", "b", "\n", "a", "b", "c", ",", "c", "\n", ",", "d", "\n", "2", "0", ".", "5", ",", "e">>

\* Texts: the header "amount,note" with up to MaxRows data lines whose
\* amount cell is empty, not a number, negative, zero or positive; with
\* further spellings of an amount cell; the example; headers with the
\* column first, second, padded, in another case or absent; texts with
\* blank lines, carriage returns or fewer than two lines; texts with
\* amounts of more than twenty decimal places.
CsvContents ==
    LET cells == {<<>>, <<"a", "b", "c">>, <<"-", "5">>, <<"0">>, <<"0", ".", "2">>}
        spellings == {<<"1", "0", ".", "1", "2", "3", "4", "5", "6", "7">>, <<"2", "0", ".", "5">>, <<"2", ".", "5", "0">>, <<".", "5">>, <<"1", ".">>, <<" ", "1", " ">>, <<"1", ".", "2", ".", "3">>,
                      <<"0", ".", "1", "2", "3", "4", "5", "6", "7", "8">>, <<"-", "0", ".", "1">>, <<"1", " ", "0", "0", "0">>, <<".">>, <<"-">>, <<"0", ".", "2">>}
        headers == {<<"a", "m", "o", "u", "n", "t", ",", "n", "o", "t", "e">>, <<"n", "o", "t", "e", ",", "a", "m", "o", "u", "n", "t">>,
                    <<" ", "a", "m", "o", "u", "n", "t", " ", ",", "n", "o", "t", "e">>, <<"A", "m", "o", "u", "n", "t", ",", "n", "o", "t", "e">>,
                    <<"a", "m", "o", "u", "n", "t", "s", ",", "n", "o", "t", "e">>, <<"n", "o", "t", "e">>, <<"a", "m", "o", "u", "n", "t">>,
                    <<"n", "o", "t", "e", ",", "a", "m", "o", "u", "n", "t", ",", "a", "m", "o", "u", "n", "t">>, <<",">>}
        rows == {<<<<"1", ",", "2">>>>, <<<<"1", ",", "2">>, <<"3">>>>,
                 <<<<"x", ",", "0", ".", "5">>, <<"-", "1", ",", "-", "1">>, <<",", ",">>>>}
    IN  {Join(<<HeaderAmountNote>> \o [i \in 1..Len(row) |-> AmountLine(row[i])], "\n") :
            row \in SeqsUpTo(cells, MaxRows)}
        \cup {Join(<<HeaderAmountNote, AmountLine(<<"0", ".", "1">>), AmountLine(cell)>>, "\n") :
                cell \in spellings}
        \cup {CsvExample}
        \cup {Join(<<header>> \o lines, "\n") : header \in headers, lines \in rows}
        \cup {<<>>, <<"\n">>, <<"a", "m", "o", "u", "n", "t", ",", "n", "o", "t", "e">>, <<"a", "m", "o", "u", "n", "t", ",", "n", "o", "t", "e", "\n">>,
              <<"a", "m", "o", "u", "n", "t", ",", "n", "o", "t", "e", "\n", " ", " ", "\n">>, <<"a", "m", "o", "u", "n", "t", "\r", "\n", "1", "\r", "\n", "2", "\r", "\n">>,
              <<"\n", "a", "m", "o", "u", "n", "t", "\n", "\n", "1", "\n", " ", "\n", "0", ".", "5", "\n">>, <<"1", "\n", "2">>,
              <<"a", "m", "o", "u", "n", "t", ",", "n", "o", "t", "e", "\n", ",", "\n", "1", ",">>,
              \* amounts of more than twenty decimal places
              <<"a", "m", "o", "u", "n", "t", "\n", "0", ".", "0", "0", "0", "0", "0", "0", "0", "0", "0", "0", "0", "0", "0", "0", "0", "0", "0", "0", "0", "0", "5">>,
              <<"a", "m", "o", "u", "n", "t", "\n", "0", ".", "0", "0", "0", "0", "0", "0", "0", "0", "0", "0", "0", "0", "0", "0", "0", "0", "0", "0", "0", "0", "1", "\n", "0", ".", "0", "0", "0", "0", "0", "0", "0", "0", "0", "0", "0", "0", "0", "0", "0", "0", "0", "0", "0", "0", "1">>,
              <<"a", "m", "o", "u", "n", "t", "\n", "0", ".", "0", "0", "0", "0", "0", "0", "0", "0", "0", "0", "0", "0", "0", "0", "0", "0", "0", "0", "0", "0", "0", "5", "\n", "0", ".", "0", "0", "0", "0", "0", "0", "0", "0", "0", "0", "0", "0", "0", "0", "0", "0", "0", "0", "0", "0", "0", "5", "\n", "1">>}

ColumnNames == {<<"a", "m", "o", "u", "n", "t">>, <<"n", "o", "t", "e">>, <<"t", "o", "t", "a", "l">>}

LowDecimalPlaces == 2

\* getCSVStatistics(csvContent, amountColumn)
GetCSVStatistics ==
    /\ call = NoCall
    /\ \E csvContent \in CsvContents, amountColumn \in Optional(ColumnNames) :
        call' = [fn |-> "getCSVStatistics",
                 csvContent |-> csvContent,
                 amountColumn |-> amountColumn,
                 outcome |-> getCSVStatistics(csvContent,
                                 OrDefault(amountColumn, DefaultColumnName))]
    /\ UNCHANGED <<disbursementStatus, paymentStatus,
                 mutation, refresh, session, download, monitor>>

\* The texts made of the first line of a text and its other lines in
\* another order
Reordered(text) ==
    LET lines == Split(text, "\n")
        rows == Tail(lines)
    IN  IF Len(lines) < 3 \/ ~NonBlankLine(Head(lines)) THEN {}
        ELSE {Join(<<Head(lines)>> \o [i \in 1..Len(rows) |-> rows[order[i]]], "\n") :
                order \in {f \in [1..Len(rows) -> 1..Len(rows)] :
                              \A i, j \in 1..Len(rows) : f[i] = f[j] => i = j}}
             \ {text}

\* A second call of getCSVStatistics, with the defaults, on the text of
\* the call before with its lines after the first in another order
GetCSVStatisticsReordered ==
    /\ call # NoCall
    /\ call.fn = "getCSVStatistics"
    /\ "earlier" \notin DOMAIN call
    /\ call.amountColumn = Undefined
    /\ \E csvContent \in Reordered(call.csvContent) :
        call' = [fn |-> "getCSVStatistics",
                 csvContent |-> csvContent,
                 amountColumn |-> call.amountColumn,
                 outcome |-> getCSVStatistics(csvContent,
                                 OrDefault(call.amountColumn, DefaultColumnName)),
                 earlier |-> call]
    /\ UNCHANGED <<disbursementStatus, paymentStatus,
                 mutation, refresh, session, download, monitor>>

\* csvTotalAmount({csvFile, columnName, decimalPlaces})
CsvTotalAmount ==
    LET \* Files handed to csvTotalAmount: none, one the reader fails on, texts
        CsvFiles ==
            {Undefined, Some([readable |-> FALSE, text |-> <<>>])}
            \cup {Some([readable |-> TRUE, text |-> text]) : text \in CsvContents}
    IN
    /\ call = NoCall
    /\ \E csvFile \in CsvFiles,
          options \in {<<columnName, Undefined>> : columnName \in Optional(ColumnNames)}
                      \cup {<<Undefined, Some(LowDecimalPlaces)>>} :
        LET columnName == options[1]
            decimalPlaces == options[2]
        IN
        call' = [fn |-> "csvTotalAmount",
                 csvFile |-> csvFile,
                 columnName |-> columnName,
                 decimalPlaces |-> decimalPlaces,
                 outcome |-> csvTotalAmount(csvFile, columnName, decimalPlaces)]
    /\ UNCHANGED <<disbursementStatus, paymentStatus,
                 mutation, refresh, session, download, monitor>>

\* A second call of csvTotalAmount, likewise
CsvTotalAmountReordered ==
    /\ call # NoCall
    /\ call.fn = "csvTotalAmount"
    /\ "earlier" \notin DOMAIN call
    /\ call.csvFile # Undefined
    /\ call.columnName = Undefined
    /\ call.decimalPlaces = Undefined
    /\ \E text \in Reordered(call.csvFile[1].text) :
        LET csvFile == Some([readable |-> TRUE, text |-> text])
        IN  call' = [fn |-> "csvTotalAmount",
                     csvFile |-> csvFile,
                     columnName |-> call.columnName,
                     decimalPlaces |-> call.decimalPlaces,
                     outcome |-> csvTotalAmount(csvFile, call.columnName,
                                                call.decimalPlaces),
                     earlier |-> call]
    /\ UNCHANGED <<disbursementStatus, paymentStatus,
                 mutation, refresh, session, download, monitor>>

NextCsv ==
    \/ GetCSVStatistics
    \/ GetCSVStatisticsReordered
    \/ CsvTotalAmount
    \/ CsvTotalAmountReordered

SpecCsv == Init /\ [][NextCsv]_vars

-----------------------------------------------------------------------------
(* CSV aggregation: properties.                                           *)

\* The data rows of a text: its non-blank lines after the header line
DataRows(text) ==
    LET lines == SelectSeq(Split(text, "\n"), NonBlankLine)
    IN  IF lines = <<>> THEN <<>> ELSE Tail(lines)

\* The trimmed cells of the header line of a text with a header
HeaderCells(text) ==
    LET cells == Split(Head(SelectSeq(Split(text, "\n"), NonBlankLine)), ",")
    IN  [i \in 1..Len(cells) |-> Trim(cells[i])]

HasHeader(text) == SelectSeq(Split(text, "\n"), NonBlankLine) # <<>>

ColumnPresent(text, name) ==
    HasHeader(text) /\ \E i \in 1..Len(HeaderCells(text)) : HeaderCells(text)[i] = name

\* The position of the first header cell equal to the name
ColumnPosition(text, name) ==
    CHOOSE i \in 1..Len(HeaderCells(text)) :
        /\ HeaderCells(text)[i] = name
        /\ \A j \in 1..(i - 1) : HeaderCells(text)[j] # name

\* The trimmed target cell of a data row, empty when the row is too short
TargetCell(row, position) ==
    LET cells == Split(row, ",")
    IN  IF position <= Len(cells) THEN Trim(cells[position]) ELSE <<>>

\* A row is accepted when its target cell is a number that is not negative
AcceptedRow(row, position) ==
    LET cell == TargetCell(row, position)
    IN  cell # <<>> /\ ~BigNumber(cell).nan /\ ~BigNumber(cell).negative

AcceptedCount(rows, position) ==
    Cardinality({i \in 1..Len(rows) : AcceptedRow(rows[i], position)})

\* The exact sum of the target cells of the accepted rows, from the first
RECURSIVE AcceptedSum(_, _)
AcceptedSum(rows, position) ==
    IF rows = <<>> THEN BigNumberZero
    ELSE IF AcceptedRow(Head(rows), position)
         THEN Plus(BigNumber(TargetCell(Head(rows), position)),
                   AcceptedSum(Tail(rows), position))
         ELSE AcceptedSum(Tail(rows), position)

\* The data logged with 'CSV total amount calculated successfully'
LoggedTotals(outcome) ==
    LET i == CHOOSE j \in 1..Len(outcome.logs) :
                 outcome.logs[j][2] = "CSV total amount calculated successfully"
    IN  outcome.logs[i][3]

StatisticsCallOn(name) ==
    /\ call # NoCall
    /\ call.fn = "getCSVStatistics"
    /\ OrDefault(call.amountColumn, DefaultColumnName) = name

TotalCallOn(name) ==
    /\ call # NoCall
    /\ call.fn = "csvTotalAmount"
    /\ call.csvFile # Undefined
    /\ call.csvFile[1].readable
    /\ OrDefault(call.columnName, DefaultColumnName) = name

\* C11: both aggregations handle every data row on its own: a row whose
\* target cell is empty, not a number or negative is counted invalid and
\* skipped, the rows after it are still processed, and the total is the
\* exact sum of the accepted rows (zero and positive cells), whatever the
\* order and mix of the rows.
C11_RowsIndependent ==
    \A name \in ColumnNames :
        /\ StatisticsCallOn(name) /\ ColumnPresent(call.csvContent, name)
           => LET rows == DataRows(call.csvContent)
                  position == ColumnPosition(call.csvContent, name)
                  result == call.outcome.value
              IN  /\ ~call.outcome.threw
                  /\ result.validRows = AcceptedCount(rows, position)
                  /\ result.invalidRows = Len(rows) - AcceptedCount(rows, position)
                  /\ result.totalAmount = AcceptedSum(rows, position)
        /\ TotalCallOn(name) /\ ColumnPresent(call.csvFile[1].text, name)
                             /\ DataRows(call.csvFile[1].text) # <<>>
           => LET rows == DataRows(call.csvFile[1].text)
                  position == ColumnPosition(call.csvFile[1].text, name)
              IN  /\ ~call.outcome.threw
                  /\ call.outcome.value = Some(AcceptedSum(rows, position))
                  /\ LoggedTotals(call.outcome).validRows = AcceptedCount(rows, position)
                  /\ LoggedTotals(call.outcome).invalidRows
                        = Len(rows) - AcceptedCount(rows, position)

\* An invalid row first, then a zero and a positive row: both accepted
C11_Witness ==
    /\ StatisticsCallOn(DefaultColumnName)
    /\ call.csvContent = Join(<<HeaderAmountNote, AmountLine(<<"a", "b", "c">>),
                                AmountLine(<<"0">>), AmountLine(<<"0", ".", "2">>)>>, "\n")
    /\ call.outcome.value.validRows = 2
    /\ call.outcome.value.invalidRows = 1
    /\ call.outcome.value.totalAmount.limbs = <<0, 20000, 0, 0, 0>>

\* C12: on the six-line example with the column amount, getCSVStatistics
\* gives 2 valid rows, 3 invalid rows, total 30.6234567, minimum
\* 10.1234567, maximum 20.5 and average 15.31172835.
C12_Example ==
    StatisticsCallOn(DefaultColumnName) /\ call.csvContent = CsvExample
    => /\ ~call.outcome.threw
       /\ call.outcome.value.validRows = 2
       /\ call.outcome.value.invalidRows = 3
       /\ call.outcome.value.totalAmount
            = [nan |-> FALSE, negative |-> FALSE, limbs |-> <<30, 62345, 67000, 0, 0>>]
       /\ call.outcome.value.minAmount
            = [nan |-> FALSE, negative |-> FALSE, limbs |-> <<10, 12345, 67000, 0, 0>>]
       /\ call.outcome.value.maxAmount
            = [nan |-> FALSE, negative |-> FALSE, limbs |-> <<20, 50000, 0, 0, 0>>]
       /\ call.outcome.value.averageAmount
            = [nan |-> FALSE, negative |-> FALSE, limbs |-> <<15, 31172, 83500, 0, 0>>]

C12_Witness ==
    /\ StatisticsCallOn(DefaultColumnName)
    /\ call.csvContent = CsvExample
    /\ call.amountColumn = Undefined
    /\ call.outcome.value.rowCount = 5

\* C13: the total, the counts of valid and invalid rows, the minimum and
\* the maximum do not depend on the order of the data rows: a second call
\* on the same rows in another order gives the same values.
C13_OrderIndependent ==
    call # NoCall /\ "earlier" \in DOMAIN call
    => /\ call.outcome.threw = call.earlier.outcome.threw
       /\ call.fn = "getCSVStatistics"
          => /\ call.outcome.value.totalAmount = call.earlier.outcome.value.totalAmount
             /\ call.outcome.value.validRows = call.earlier.outcome.value.validRows
             /\ call.outcome.value.invalidRows = call.earlier.outcome.value.invalidRows
             /\ call.outcome.value.minAmount = call.earlier.outcome.value.minAmount
             /\ call.outcome.value.maxAmount = call.earlier.outcome.value.maxAmount
       /\ call.fn = "csvTotalAmount"
          => /\ call.outcome.value = call.earlier.outcome.value
             /\ call.outcome.value # Undefined
                => /\ LoggedTotals(call.outcome).validRows
                        = LoggedTotals(call.earlier.outcome).validRows
                   /\ LoggedTotals(call.outcome).invalidRows
                        = LoggedTotals(call.earlier.outcome).invalidRows

\* The rows 0, abc, 0.2 and then the same rows as 0.2, abc, 0
C13_Witness ==
    /\ StatisticsCallOn(DefaultColumnName)
    /\ "earlier" \in DOMAIN call
    /\ call.earlier.csvContent = Join(<<HeaderAmountNote, AmountLine(<<"0">>),
                                        AmountLine(<<"a", "b", "c">>), AmountLine(<<"0", ".", "2">>)>>, "\n")
    /\ call.csvContent = Join(<<HeaderAmountNote, AmountLine(<<"0", ".", "2">>),
                                AmountLine(<<"a", "b", "c">>), AmountLine(<<"0">>)>>, "\n")
    /\ call.outcome.value.totalAmount.limbs = <<0, 20000, 0, 0, 0>>
    /\ call.outcome.value.minAmount.limbs = <<0, 0, 0, 0, 0>>
    /\ call.outcome.value.maxAmount.limbs = <<0, 20000, 0, 0, 0>>

\* The statement of C14 as written, for both aggregations: without the
\* column the result is a zero total and every data row counted invalid.
C14_Original ==
    \A name \in ColumnNames :
        /\ StatisticsCallOn(name) /\ ~ColumnPresent(call.csvContent, name)
           => /\ ~call.outcome.threw
              /\ call.outcome.value.totalAmount = BigNumberZero
              /\ call.outcome.value.invalidRows = Len(DataRows(call.csvContent))
        /\ TotalCallOn(name) /\ ~ColumnPresent(call.csvFile[1].text, name)
           => /\ ~call.outcome.threw
              /\ call.outcome.value = Some(BigNumberZero)

\* C14: when no header cell, trimmed, equals the requested column name,
\* neither aggregation fails: getCSVStatistics returns total, average,
\* minimum and maximum 0 with 0 valid rows and every data row counted
\* invalid; csvTotalAmount resolves with null, not with a total.
C14_ColumnAbsent ==
    \A name \in ColumnNames :
        /\ StatisticsCallOn(name) /\ ~ColumnPresent(call.csvContent, name)
           => /\ ~call.outcome.threw
              /\ call.outcome.value.totalAmount = BigNumberZero
              /\ call.outcome.value.averageAmount = BigNumberZero
              /\ call.outcome.value.minAmount = BigNumberZero
              /\ call.outcome.value.maxAmount = BigNumberZero
              /\ call.outcome.value.validRows = 0
              /\ call.outcome.value.invalidRows = Len(DataRows(call.csvContent))
        /\ TotalCallOn(name) /\ ~ColumnPresent(call.csvFile[1].text, name)
           => /\ ~call.outcome.threw
              /\ call.outcome.value = Undefined

\* The header "Amount,note" for the column "amount", with two data rows
C14_Witness ==
    /\ StatisticsCallOn(DefaultColumnName)
    /\ call.csvContent = <<"A", "m", "o", "u", "n", "t", ",", "n", "o", "t", "e", "\n", "1", ",", "2", "\n", "3">>
    /\ call.outcome.value.invalidRows = 2
    /\ call.outcome.value.rowCount = 2

-----------------------------------------------------------------------------
(* Record formatters: status history.                                     *)

\* An input entry that has both a status and a timestamp
CompleteEntry(entry) ==
    /\ entry.status # Undefined /\ entry.status[1] # ""
    /\ entry.timestamp # Undefined /\ entry.timestamp[1] # ""

\* <<status, timestamp>> of the complete entries of a raw history, in
\* input order; none for an absent history
CompleteEntries(status_history) ==
    IF status_history = Undefined THEN <<>>
    ELSE LET complete == SelectSeq(status_history[1], CompleteEntry)
         IN  [i \in 1..Len(complete) |->
                 <<complete[i].status[1], complete[i].timestamp[1]>>]

\* <<status, timestamp>> of the entries of the returned history
ReturnedEntries ==
    LET history == call.outcome.value.statusHistory
    IN  [i \in 1..Len(history) |->
            <<history[i].status[1],
              IF call.fn = "formatDisbursement" THEN history[i].timestamp[1]
              ELSE history[i].updatedAt[1]>>]

\* Two sequences hold the same entries, each as often
SameEntries(s, t) ==
    /\ Len(s) = Len(t)
    /\ \E f \in [1..Len(s) -> 1..Len(t)] :
        /\ \A i, j \in 1..Len(s) : f[i] = f[j] => i = j
        /\ \A i \in 1..Len(s) : s[i] = t[f[i]]

\* No entry with a date stands before an entry with a later date
NewestFirstOrder(entries) ==
    \A i, j \in 1..Len(entries) :
        /\ i < j
        /\ DateGetTime(entries[i][2]) # NotANumber
        /\ DateGetTime(entries[j][2]) # NotANumber
        => DateGetTime(entries[i][2])[1] >= DateGetTime(entries[j][2])[1]

HistoryCall ==
    /\ call # NoCall
    /\ call.fn \in {"formatDisbursement", "formatPaymentDetails"}
    /\ ~call.outcome.threw

RawHistory ==
    IF call.fn = "formatDisbursement" THEN call.disbursement.status_history
    ELSE call.payment.status_history

\* C15: for every raw disbursement and payment that is formatted, the
\* returned statusHistory holds exactly the input entries that have both a
\* status and a timestamp, newest first whatever the input order; an
\* absent history gives the empty list.
C15_HistoryNewestFirst ==
    HistoryCall
    => /\ SameEntries(ReturnedEntries, CompleteEntries(RawHistory))
       /\ NewestFirstOrder(ReturnedEntries)

-----------------------------------------------------------------------------
(* Record formatters: payment receivers.                                  *)

\* receiver.wallets.find(w => w.id === receiverWalletId) returning the
\* first wallet of the receiver whatever its id.
FindWalletOrFirst(wallets, receiverWalletId) ==
    IF wallets = <<>> THEN Undefined ELSE Some(wallets[1])

\* receiver.wallets.find(w => w.id === receiverWalletId)
FindWallet(wallets, receiverWalletId) ==
    LET hits == {i \in 1..Len(wallets) : wallets[i].id = receiverWalletId}
    IN  IF hits = {} THEN Undefined
        ELSE Some(wallets[CHOOSE i \in hits : \A j \in hits : i <= j])

\* received_amounts.map(...): the warnings of the callback, in order
RECURSIVE ReceivedAmountWarnings(_)
ReceivedAmountWarnings(received_amounts) ==
    LET a == Head(received_amounts)
        \* !a.received_amount || a.received_amount <= 0
        invalid == FalsyNumber(a.received_amount) \/ a.received_amount[1] <= 0
    IN  IF received_amounts = <<>> THEN <<>>
        ELSE (IF invalid THEN <<Warn("Invalid received amount")>> ELSE <<>>)
             \o ReceivedAmountWarnings(Tail(received_amounts))

\* received_amounts.map(...): the mapped entries
MapReceivedAmounts(received_amounts) ==
    [i \in 1..Len(received_amounts) |->
        [amount      |-> received_amounts[i].received_amount,
         assetCode   |-> received_amounts[i].asset_code,
         assetIssuer |-> received_amounts[i].asset_issuer]]

\* .filter(amount => amount.amount > 0) keeping zero amounts as well.
FilterNonNegativeAmounts(entries) ==
    LET NonNegative(entry) == entry.amount # Undefined /\ entry.amount[1] >= 0
    IN  SelectSeq(entries, NonNegative)

\* .filter(amount => amount.amount > 0): undefined > 0 is false
FilterPositiveAmounts(entries) ==
    LET PositiveAmount(entry) == entry.amount # Undefined /\ entry.amount[1] > 0
    IN  SelectSeq(entries, PositiveAmount)

\* formatPaymentReceiver(receiver, receiverWalletId): the returned model and
\* the lines logged on the way, or the error thrown for a missing id.
formatPaymentReceiver(receiver, receiverWalletId) ==
    LET \* receiverWalletId ? receiver.wallets.find(...) : undefined
        paymentWallet ==
            IF FalsyString(receiverWalletId) THEN Undefined
            ELSE FindWallet(receiver.wallets, receiverWalletId[1])
        \* paymentWallet?.wallet.name
        providerName ==
            IF paymentWallet = Undefined THEN Undefined ELSE paymentWallet[1].wallet.name
        \* receiver.received_amounts?.map(...).filter(...) || []
        amountsReceived ==
            IF receiver.received_amounts = Undefined THEN <<>>
            ELSE FilterPositiveAmounts(MapReceivedAmounts(receiver.received_amounts[1]))
        model ==
            [id                      |-> receiver.id[1],
             phoneNumber             |-> receiver.phone_number,
             email                   |-> receiver.email,
             walletAddress           |-> StringOr(paymentWallet, "stellar_address", ""),
             provider                |-> IF FalsyString(providerName) THEN ""
                                         ELSE providerName[1],
             totalPaymentsCount      |-> NumberOrZero(receiver.total_payments),
             successfulPaymentsCount |-> NumberOrZero(receiver.successful_payments),
             createdAt               |-> StringOr(paymentWallet, "created_at", ""),
             amountsReceived         |-> amountsReceived,
             status                  |-> OptionalField(paymentWallet, "status")]
        logs ==
            (IF ~FalsyString(receiverWalletId) /\ paymentWallet = Undefined
             THEN <<Warn("Receiver wallet not found")>> ELSE <<>>)
            \o (IF NumberOrZero(receiver.successful_payments)
                    > NumberOrZero(receiver.total_payments)
                THEN <<Warn("Invalid payment statistics")>> ELSE <<>>)
            \o (IF receiver.received_amounts = Undefined THEN <<>>
                ELSE ReceivedAmountWarnings(receiver.received_amounts[1]))
            \o <<Info("Receiver details formatted successfully")>>
    IN  IF FalsyString(receiver.id)
        THEN Throw("Receiver ID is required",
                   <<Warn("Receiver missing ID"), Error("Failed to format receiver details")>>)
        ELSE Return(model, logs)

\* value && value.trim() !== ''  of an optional text
HasContact(value) == ~FalsyName(value) /\ Trim(value[1]) # <<>>

\* validateReceiverContact looking at the phone number only.
validateReceiverContactPhoneOnly(receiver) ==
    IF ~HasContact(receiver.phone_number)
    THEN Return(FALSE, <<Warn("Receiver has no contact information")>>)
    ELSE Return(TRUE, <<>>)

validateReceiverContact(receiver) ==
    LET hasPhone == HasContact(receiver.phone_number)
        hasEmail == HasContact(receiver.email)
    IN  IF ~hasPhone /\ ~hasEmail
        THEN Return(FALSE, <<Warn("Receiver has no contact information")>>)
        ELSE Return(TRUE, <<>>)

-----------------------------------------------------------------------------
(* Payment receivers: inputs and calls.                                   *)

\* Most wallets of a raw receiver.
MaxWallets == 2

\* Most received amounts of a raw receiver.
MaxReceived == 2

RegisteredWallet ==
    [id |-> "w1", stellar_address |-> Some("GA1"), wallet |-> [name |-> Some("Vibrant")],
     created_at |-> Some("2024-01-01T00:00:00Z"), status |-> Some("REGISTERED")]

\* A wallet with its optional fields absent or empty
BareWallet ==
    [id |-> "w2", stellar_address |-> Undefined, wallet |-> [name |-> Some("")],
     created_at |-> Some(""), status |-> Undefined]

ValidReceiver ==
    [id |-> Some("r1"),
     phone_number |-> Some(<<"+", "1">>),
     email |-> Undefined,
     wallets |-> <<>>,
     total_payments |-> Some(1),
     successful_payments |-> Some(1),
     received_amounts |-> Undefined]

\* Receivers with up to MaxWallets wallets, two of them under the same id
ReceiversByWallets ==
    LET ReadyWallet ==
            [id |-> "w1", stellar_address |-> Some("GA2"),
             wallet |-> [name |-> Some("Freedom")],
             created_at |-> Some("2024-01-02T00:00:00Z"), status |-> Some("READY")]
    IN  {[ValidReceiver EXCEPT !.wallets = wallets] :
            wallets \in SeqsUpTo({RegisteredWallet, ReadyWallet, BareWallet}, MaxWallets)}

\* Receivers by contact (absent, empty, blank, given) and id, by wallets,
\* by payment counts and by up to MaxReceived received amounts.
RawReceivers ==
    LET contacts == {Undefined, Some(<<>>), Some(<<" ">>), Some(<<" ", "x", " ">>)}
        counts == Counts \cup {Some(MaxCount + 1)}
        receivedAmounts ==
            {[received_amount |-> amount, asset_code |-> Some("USDC"),
              asset_issuer |-> Some("GI1")] : amount \in Optional(-1..MaxAmount)}
            \cup {[received_amount |-> Some(1), asset_code |-> Some("EURC"),
                   asset_issuer |-> Undefined]}
    IN  {[ValidReceiver EXCEPT !.phone_number = phone, !.email = email, !.id = id] :
            phone \in contacts, email \in contacts, id \in {Undefined, Some(""), Some("r1")}}
        \cup ReceiversByWallets
        \cup {[ValidReceiver EXCEPT !.total_payments = total,
                                    !.successful_payments = successful] :
                total \in counts, successful \in counts}
        \cup {[ValidReceiver EXCEPT !.received_amounts = amounts] :
                amounts \in Optional(SeqsUpTo(receivedAmounts, MaxReceived))}

\* formatPaymentReceiver(receiver, receiverWalletId)
FormatPaymentReceiver ==
    LET \* A receiver with a wallet, more successful than total payments and a
        \* zero received amount
        MixedReceiver ==
            [ValidReceiver EXCEPT
                !.wallets = <<RegisteredWallet>>,
                !.total_payments = Some(0),
                !.received_amounts = Some(<<[received_amount |-> Some(0),
                                             asset_code |-> Some("USDC"),
                                             asset_issuer |-> Some("GI1")]>>)]
    IN
    /\ call = NoCall
    /\ \E receiver \in RawReceivers \cup {MixedReceiver},
          receiverWalletId \in {Undefined, Some(""), Some("w1"), Some("w2"), Some("w9")} :
        /\ receiver \in ReceiversByWallets \cup {MixedReceiver}
           \/ receiverWalletId \in {Undefined, Some("w9")}
        /\ call' = [fn |-> "formatPaymentReceiver",
                    receiver |-> receiver,
                    receiverWalletId |-> receiverWalletId,
                    outcome |-> formatPaymentReceiver(receiver, receiverWalletId)]
    /\ UNCHANGED <<disbursementStatus, paymentStatus,
                 mutation, refresh, session, download, monitor>>

\* validateReceiverContact(receiver)
ValidateReceiverContact ==
    LET \* The same receivers with a blank phone number and no e-mail address
        ReceiversWithoutContact ==
            {[receiver EXCEPT !.phone_number = Some(<<" ">>), !.email = Undefined] :
                receiver \in RawReceivers}
    IN
    /\ call = NoCall
    /\ \E receiver \in RawReceivers \cup ReceiversWithoutContact :
        call' = [fn |-> "validateReceiverContact",
                 receiver |-> receiver,
                 outcome |-> validateReceiverContact(receiver)]
    /\ UNCHANGED <<disbursementStatus, paymentStatus,
                 mutation, refresh, session, download, monitor>>

NextReceiver ==
    \/ FormatPaymentReceiver
    \/ ValidateReceiverContact

SpecReceiver == Init /\ [][NextReceiver]_vars

-----------------------------------------------------------------------------
(* Payment receivers: properties.                                         *)

\* A contact is blank when it is absent or holds white space only
BlankContact(value) ==
    value = Undefined \/ \A i \in 1..Len(value[1]) : value[1][i] \in Whitespace

\* C16: validateReceiverContact returns false for every receiver whose
\* phone number and e-mail address are both absent or blank and true when
\* at least one of them is not blank, whatever the other fields are.
C16_ContactRequired ==
    call # NoCall /\ call.fn = "validateReceiverContact"
    => /\ ~call.outcome.threw
       /\ call.outcome.value
            = ~(BlankContact(call.receiver.phone_number)
                /\ BlankContact(call.receiver.email))

\* A blank phone number and no e-mail address on a receiver with wallets
C16_Witness ==
    /\ call # NoCall
    /\ call.fn = "validateReceiverContact"
    /\ call.receiver.phone_number = Some(<<" ">>)
    /\ call.receiver.email = Undefined
    /\ call.receiver.wallets = <<RegisteredWallet, BareWallet>>
    /\ call.outcome.value = FALSE

ReceiverCall ==
    /\ call # NoCall
    /\ call.fn = "formatPaymentReceiver"
    /\ call.receiver.id # Undefined
    /\ call.receiver.id[1] # ""

\* The wallets of the receiver that carry the requested id, by position
MatchingWallets ==
    {i \in 1..Len(call.receiver.wallets) :
        call.receiver.wallets[i].id = call.receiverWalletId[1]}

TextOrEmpty(o) == IF o = Undefined THEN "" ELSE o[1]

CountOrZero(o) == IF o = Undefined THEN 0 ELSE o[1]

\* C17: for a receiver with an id, formatPaymentReceiver with a requested
\* wallet id that none of the receiver's wallets carries does not fail and
\* returns walletAddress, provider and createdAt empty and no status; when
\* a wallet carries the id the four fields are those of the (first) such
\* wallet; more successful than total payments only logs a warning.
C17_WalletFields ==
    ReceiverCall
    => LET model == call.outcome.value
           first == call.receiver.wallets[CHOOSE i \in MatchingWallets :
                                              \A j \in MatchingWallets : i <= j]
       IN  /\ ~call.outcome.threw
           /\ call.receiverWalletId # Undefined /\ call.receiverWalletId[1] # ""
              => IF MatchingWallets = {}
                 THEN /\ model.walletAddress = ""
                      /\ model.provider = ""
                      /\ model.createdAt = ""
                      /\ model.status = Undefined
                      /\ Includes(call.outcome.logs, <<"warn", "Receiver wallet not found">>)
                 ELSE /\ model.walletAddress = TextOrEmpty(first.stellar_address)
                      /\ model.provider = TextOrEmpty(first.wallet.name)
                      /\ model.createdAt = TextOrEmpty(first.created_at)
                      /\ model.status = first.status
           /\ CountOrZero(call.receiver.successful_payments)
                > CountOrZero(call.receiver.total_payments)
              => /\ Includes(call.outcome.logs, <<"warn", "Invalid payment statistics">>)
                 /\ model.successfulPaymentsCount
                        = CountOrZero(call.receiver.successful_payments)
                 /\ model.totalPaymentsCount = CountOrZero(call.receiver.total_payments)

\* The wallet id w9 asked of a receiver whose wallets are w1 and w2
C17_Witness ==
    /\ ReceiverCall
    /\ call.receiverWalletId = Some("w9")
    /\ call.receiver.wallets = <<RegisteredWallet, BareWallet>>
    /\ call.outcome.value.walletAddress = ""
    /\ call.outcome.value.status = Undefined

\* The entries of a list of raw received amounts whose amount is above
\* zero, in input order, as entries of the model
RECURSIVE PositiveEntries(_)
PositiveEntries(received_amounts) ==
    IF received_amounts = <<>> THEN <<>>
    ELSE LET a == Head(received_amounts)
         IN  (IF a.received_amount # Undefined /\ a.received_amount[1] >= 1
              THEN <<[amount |-> a.received_amount, assetCode |-> a.asset_code,
                      assetIssuer |-> a.asset_issuer]>>
              ELSE <<>>)
             \o PositiveEntries(Tail(received_amounts))

\* C18: for a receiver with an id, amountsReceived holds exactly the
\* entries of received_amounts whose amount is above zero, in input order;
\* entries with a zero, negative or missing amount are dropped and never
\* make the call fail.
C18_PositiveAmounts ==
    ReceiverCall
    => /\ ~call.outcome.threw
       /\ call.outcome.value.amountsReceived
            = IF call.receiver.received_amounts = Undefined THEN <<>>
              ELSE PositiveEntries(call.receiver.received_amounts[1])

\* A zero amount before a positive one
C18_Witness ==
    /\ ReceiverCall
    /\ call.receiver.received_amounts # Undefined
    /\ Len(call.receiver.received_amounts[1]) = 2
    /\ call.receiver.received_amounts[1][1].received_amount = Some(0)
    /\ call.receiver.received_amounts[1][2].received_amount = Some(2)
    /\ Len(call.outcome.value.amountsReceived) = 1
    /\ call.outcome.value.amountsReceived[1].amount = Some(2)

-----------------------------------------------------------------------------
(* Wallet address validators.                                             *)

\* An address is a string held as its sequence of characters.
WALLET_ADDRESS_PREFIX == "G"
WALLET_ADDRESS_LENGTH == 56

\* The repetition count of WALLET_ADDRESS_REGEX
REGEX_REPEAT == 55

\* The character class [A-Z2-7]
RegexClass ==
    {"A", "B", "C", "D", "E", "F", "G", "H", "I", "J", "K", "L", "M",
     "N", "O", "P", "Q", "R", "S", "T", "U", "V", "W", "X", "Y", "Z",
     "2", "3", "4", "5", "6", "7"}

\* /^G[A-Z2-7]{55}$/.test(address)
WALLET_ADDRESS_REGEX(address) ==
    /\ Len(address) = 1 + REGEX_REPEAT
    /\ address[1] = "G"
    /\ \A i \in 2..Len(address) : address[i] \in RegexClass

\* address.startsWith(prefix) for a one-character prefix
StartsWith(address, prefix) == address # <<>> /\ address[1] = prefix

\* address.includes(c) for some character c of the set
IncludesAny(address, chars) == \E i \in 1..Len(address) : address[i] \in chars

Debug(message) == <<"debug", message>>

isValidWalletAddress(address) ==
    IF address = <<>> THEN Return(FALSE, <<>>)
    ELSE IF ~StartsWith(address, WALLET_ADDRESS_PREFIX)
    THEN Return(FALSE, <<Debug("Wallet address does not start with G")>>)
    ELSE IF Len(address) # WALLET_ADDRESS_LENGTH
    THEN Return(FALSE, <<Debug("Wallet address has incorrect length")>>)
    ELSE IF ~WALLET_ADDRESS_REGEX(address)
    THEN Return(FALSE, <<Debug("Wallet address does not match Stellar format")>>)
    ELSE Return(TRUE, <<>>)

\* validateWalletAddress(address): the errors collected for a non-empty
\* address, and isValid when there is none.
validateWalletAddress(address) ==
    LET errors ==
            (IF ~StartsWith(address, WALLET_ADDRESS_PREFIX)
             THEN <<"Address must start with 'G'">> ELSE <<>>)
            \o (IF Len(address) # WALLET_ADDRESS_LENGTH
                THEN <<"Address must be exactly " \o ToString(WALLET_ADDRESS_LENGTH)
                       \o " characters long (got " \o ToString(Len(address)) \o ")">>
                ELSE <<>>)
            \o (IF ~WALLET_ADDRESS_REGEX(address)
                THEN <<"Address contains invalid characters or format">> ELSE <<>>)
            \o (IF IncludesAny(address, {"0", "1", "8", "9"})
                THEN <<"Address contains invalid characters (0, 1, 8, 9 are not allowed in Stellar addresses)">>
                ELSE <<>>)
            \o (IF IncludesAny(address, {"O", "I"})
                THEN <<"Address contains invalid characters (O, I are not allowed in Stellar addresses)">>
                ELSE <<>>)
    IN  IF address = <<>>
        THEN Return([isValid |-> FALSE,
                     errors |-> <<"Address is required and must be a string">>], <<>>)
        ELSE Return([isValid |-> errors = <<>>, errors |-> errors], <<>>)

\* Addresses one character short, exact and one character long, empty and
\* of one character, by first character, by one other character at the
\* second or last position, and by the character that fills them.
Addresses ==
    LET \* The address of the given length that starts with the character first,
        \* holds the character other at the position and the filler elsewhere
        Address(length, first, other, position, filler) ==
            [i \in 1..length |->
                IF i = 1 THEN first ELSE IF i = position THEN other ELSE filler]
    IN
    LET lengths == {0, 1, WALLET_ADDRESS_LENGTH - 1, WALLET_ADDRESS_LENGTH,
                    WALLET_ADDRESS_LENGTH + 1}
    IN  {Address(length, first, other, position, "A") :
            length \in lengths, first \in {"G", "A", "g", "0", "O"},
            other \in {"A", "G", "Z", "2", "7", "0", "1", "8", "9", "O", "I", "a", "-", " "},
            position \in {2, WALLET_ADDRESS_LENGTH}}
        \cup {Address(length, "G", filler, 2, filler) :
                length \in lengths, filler \in {"A", "O", "7"}}

\* isValidWalletAddress(address)
IsValidWalletAddress ==
    /\ call = NoCall
    /\ \E address \in Addresses :
        call' = [fn |-> "isValidWalletAddress", address |-> address,
                 outcome |-> isValidWalletAddress(address)]
    /\ UNCHANGED <<disbursementStatus, paymentStatus,
                 mutation, refresh, session, download, monitor>>

\* validateWalletAddress(address)
ValidateWalletAddress ==
    /\ call = NoCall
    /\ \E address \in Addresses :
        call' = [fn |-> "validateWalletAddress", address |-> address,
                 outcome |-> validateWalletAddress(address)]
    /\ UNCHANGED <<disbursementStatus, paymentStatus,
                 mutation, refresh, session, download, monitor>>

\* validateWalletAddress on the address isValidWalletAddress was just
\* called with
ValidateWalletAddressAfter ==
    /\ call # NoCall
    /\ call.fn = "isValidWalletAddress"
    /\ call' = [fn |-> "validateWalletAddress", address |-> call.address,
                outcome |-> validateWalletAddress(call.address),
                earlier |-> call]
    /\ UNCHANGED <<disbursementStatus, paymentStatus,
                 mutation, refresh, session, download, monitor>>

NextWallet ==
    \/ IsValidWalletAddress
    \/ ValidateWalletAddress
    \/ ValidateWalletAddressAfter

SpecWallet == Init /\ [][NextWallet]_vars

\* An address is accepted by the call in the state
AddressAccepted ==
    IF call.fn = "isValidWalletAddress" THEN call.outcome.value
    ELSE call.outcome.value.isValid

\* 56 characters, the first G, the other 55 each in A..Z or 2..7
WellFormedAddress(address) ==
    /\ Len(address) = 56
    /\ address[1] = "G"
    /\ \A i \in 2..56 : address[i] \in RegexClass

\* C19: isValidWalletAddress and validateWalletAddress accept an address
\* exactly when it has 56 characters, starts with G and has its other 55
\* characters in [A-Z2-7]; every 56-character address that contains 0, 1,
\* 8, 9, O or I is rejected, every 55-character address is rejected, and
\* the two validators agree on every address.
C19_AddressFormat ==
    call # NoCall /\ call.fn \in {"isValidWalletAddress", "validateWalletAddress"}
    => /\ ~call.outcome.threw
       /\ AddressAccepted = WellFormedAddress(call.address)
       /\ Len(call.address) = 56
            /\ IncludesAny(call.address, {"0", "1", "8", "9", "O", "I"})
          => ~AddressAccepted
       /\ Len(call.address) = 55 => ~AddressAccepted
       /\ "earlier" \in DOMAIN call
          => call.outcome.value.isValid = call.earlier.outcome.value

-----------------------------------------------------------------------------
(* Access: role assignment by business and by owner.                      *)

RoleChangeCall(currentUserRole, newRole) ==
    /\ call # NoCall
    /\ call.fn = "validateRoleChangePermission"
    /\ call.currentUserRole = Some(currentUserRole)
    /\ call.newRole = Some(newRole)

\* Both assignments by an owner are allowed
C20_OwnerAssigns ==
    /\ RoleChangeCall("owner", "owner")
       => ~call.outcome.threw /\ call.outcome.value.isValid
    /\ RoleChangeCall("owner", "business")
       => ~call.outcome.threw /\ call.outcome.value.isValid

\* The statement of C20 as written: business assigning owner is denied
\* with the reason for a target role of higher rank.
C20_Original ==
    /\ RoleChangeCall("business", "owner")
       => /\ ~call.outcome.threw
          /\ ~call.outcome.value.isValid
          /\ call.outcome.value.reason
                = Some("Cannot assign a role with higher permissions than your own")
    /\ C20_OwnerAssigns

\* C20: business assigning owner is denied, and the reason returned is
\* the one for an acting role without manage_roles, which is checked
\* before the ranks; owner assigning owner and owner assigning business
\* are allowed.
C20_BusinessDeniedOwnerAllowed ==
    /\ RoleChangeCall("business", "owner")
       => /\ ~call.outcome.threw
          /\ ~call.outcome.value.isValid
          /\ call.outcome.value.reason
                = Some("Insufficient permissions to manage user roles")
    /\ C20_OwnerAssigns

C20_Witness ==
    /\ RoleChangeCall("business", "owner")
    /\ ~call.outcome.value.isValid
    /\ call.outcome.value.reason # Undefined

-----------------------------------------------------------------------------
(* PerformanceMonitor.  The variable monitor holds the two fields of the   *)
(* singleton (marks, a map from a name to its start time, and metrics),   *)
(* the reading of performance.now() in milliseconds, and the names of the *)
(* measureAsync calls whose function has not settled yet.                  *)

\* duration > 1000 of endTimer
SlowOperation == 1000

\* Milliseconds the clock advances by in one step
TickMs == 600

\* Most steps of the clock
MaxTicks == 2

\* this.marks.set(name, performance.now())
startTimer(m, name) ==
    [m EXCEPT !.marks = [k \in DOMAIN m.marks \cup {name} |->
                            IF k = name THEN m.now ELSE m.marks[k]]]

\* endTimer(name, metadata): the monitor afterwards, the returned duration
\* and the lines logged.  A start time of 0 is falsy.
endTimer(m, name, metadata) ==
    IF name \notin DOMAIN m.marks \/ m.marks[name] = 0
    THEN [monitor |-> m, value |-> 0,
          logs |-> <<Warn("Timer '" \o name \o "' was not started")>>]
    ELSE LET duration == m.now - m.marks[name]
         IN  [monitor |-> [m EXCEPT
                              !.metrics = Append(@, [name |-> name,
                                                     duration |-> duration,
                                                     metadata |-> metadata]),
                              !.marks = [k \in DOMAIN m.marks \ {name} |-> m.marks[k]]],
              value   |-> duration,
              logs    |-> IF duration > SlowOperation
                          THEN <<Warn("Slow operation detected: " \o name)>>
                          ELSE <<>>]

\* Time passes: performance.now() grows.
Tick ==
    /\ monitor.now < MaxTicks * TickMs
    /\ monitor' = [monitor EXCEPT !.now = @ + TickMs]
    /\ UNCHANGED <<call, disbursementStatus, paymentStatus,
                   mutation, refresh, session, download>>

-----------------------------------------------------------------------------
(* The role-update mutation of useUpdateUserRole.  The variable mutation   *)
(* holds the position of one run of mutationFn, its arguments, the        *)
(* requests sent through fetchApi, the query keys invalidated and the     *)
(* lines logged.                                                           *)

\* validateRole(role)
validateRole(role) ==
    LET validRoles == <<"owner", "business", "developer", "financial_controller">>
        errors == IF Includes(validRoles, role[1]) THEN <<>>
                  ELSE <<"Invalid role: " \o role[1] \o ". Valid roles are: "
                         \o "owner, business, developer, financial_controller">>
    IN  IF FalsyString(role)
        THEN Return([isValid |-> FALSE,
                     errors |-> <<"Role is required and must be a string">>], <<>>)
        ELSE Return([isValid |-> errors = <<>>, errors |-> errors], <<>>)

\* mutationFn({userId, role, currentUserRole}) up to its first await that
\* leaves the function waiting: the timer is started, the two validations
\* run, and either the error is thrown (the timer ended, onError called)
\* or the PATCH request is sent.  errors.join(', ') joins the one message
\* validateRole returns.
MutationFn ==
    /\ mutation.pc = "idle"
    /\ \E userId \in {"u1", "u2"}, role \in RoleInputs, currentUserRole \in RoleInputs :
        LET started == startTimer(monitor, "update-user-role")
            canChangeRole == validateRoleChangePermission(currentUserRole, role)
            roleValidation == validateRole(role)
            denied == ~FalsyString(currentUserRole) /\ ~canChangeRole.value.isValid
            failed == denied \/ ~roleValidation.value.isValid
            error == IF denied THEN canChangeRole.value.reason[1]
                     ELSE "Invalid role: " \o roleValidation.value.errors[1]
            ended == endTimer(started, "update-user-role", [error |-> TRUE])
            checked == IF FalsyString(currentUserRole) THEN <<>> ELSE canChangeRole.logs
        IN  /\ mutation' =
                 IF failed
                 THEN [pc |-> "rejected", userId |-> userId, role |-> role,
                       currentUserRole |-> currentUserRole,
                       requests |-> <<>>, invalidated |-> <<>>,
                       result |-> Throw(error, <<>>),
                       logs |-> checked \o ended.logs
                                \o <<Error("Failed to update user role")>>]
                 ELSE [pc |-> "fetching", userId |-> userId, role |-> role,
                       currentUserRole |-> currentUserRole,
                       requests |-> <<[method |-> "PATCH", url |-> "/users/roles",
                                       user_id |-> userId, roles |-> <<role[1]>>]>>,
                       invalidated |-> <<>>,
                       logs |-> checked \o <<Info("Updating user role")>>]
            /\ monitor' = IF failed THEN ended.monitor ELSE started
    /\ UNCHANGED <<call, disbursementStatus, paymentStatus, refresh, session, download>>

\* fetchApi resolves: the two query keys are invalidated, the timer is
\* ended and the result returned.
FetchResolves ==
    /\ mutation.pc = "fetching"
    /\ LET ended == endTimer(monitor, "update-user-role", [error |-> FALSE])
       IN  /\ mutation' = [mutation EXCEPT
                              !.pc = "resolved",
                              !.invalidated = @ \o <<"users", "profile">>,
                              !.logs = @ \o <<Info("User role updated successfully")>>
                                         \o ended.logs]
           /\ monitor' = ended.monitor
    /\ UNCHANGED <<call, disbursementStatus, paymentStatus, refresh, session, download>>

\* fetchApi rejects: the timer is ended with the error flag, the error is
\* rethrown and onError logs it.
FetchRejects ==
    /\ mutation.pc = "fetching"
    /\ LET ended == endTimer(monitor, "update-user-role", [error |-> TRUE])
       IN  /\ mutation' = [mutation EXCEPT
                              !.pc = "rejected",
                              !.logs = @ \o ended.logs
                                         \o <<Error("Failed to update user role")>>]
           /\ monitor' = ended.monitor
    /\ UNCHANGED <<call, disbursementStatus, paymentStatus, refresh, session, download>>

NextMutation ==
    \/ MutationFn
    \/ FetchResolves
    \/ FetchRejects
    \/ Tick

SpecMutation == Init /\ [][NextMutation]_vars

\* The acting role has passed validateRoleChangePermission for the target
\* role of the run
PermissionPassed ==
    LET outcome == validateRoleChangePermission(mutation.currentUserRole, mutation.role)
    IN  ~outcome.threw /\ outcome.value.isValid

\* The target role of the run has passed validateRole
RolePassed ==
    LET outcome == validateRole(mutation.role)
    IN  ~outcome.threw /\ outcome.value.isValid

\* C21: in every run of the role-update mutation the PATCH request to
\* /users/roles is sent only after the acting role has passed
\* validateRoleChangePermission for the target role and the target role
\* has passed validateRole; when either check has not passed no request is
\* sent and no query is invalidated; the queries are invalidated only
\* after the PATCH has succeeded.
C21_RequestAfterChecks ==
    mutation.pc # "idle"
    => /\ mutation.requests # <<>> => PermissionPassed /\ RolePassed
       /\ ~(PermissionPassed /\ RolePassed)
          => mutation.requests = <<>> /\ mutation.invalidated = <<>>
       /\ mutation.invalidated # <<>> => mutation.pc = "resolved"
       /\ Len(mutation.requests) <= 1

\* The same with the permission check required only of a run that names
\* an acting role: it holds, so the omitted acting role is the one case.
C21_ChecksThatRan ==
    mutation.pc # "idle"
    => /\ mutation.requests # <<>>
          => /\ RolePassed
             /\ FalsyString(mutation.currentUserRole) \/ PermissionPassed
       /\ mutation.invalidated # <<>> => mutation.pc = "resolved"

-----------------------------------------------------------------------------
(* refreshSessionToken.  The variable refresh holds the position of one   *)
(* run: its options, retryCount, the attempts made, the delays waited,    *)
(* what dispatch returned to the attempt in flight, the lines logged and  *)
(* the value the returned promise resolved with.                          *)

\* maxRetries = 3, retryDelay = 1000 of the options
DefaultMaxRetries == 3

DefaultRetryDelay == 1000

\* The delay of the setTimeout that resolves an attempt
ResolveDelay == 100

\* Largest maxRetries passed
MaxRetries == 2

\* attemptRefresh() up to its first await that leaves it waiting, on the
\* run r and the monitor m: the attempt is logged, the timer started and
\* the promise executor calls dispatch, which throws or returns a value
\* (nothing, a function, or a value that is not a function, as the
\* dispatched action or a promise is).  A throw rejects the promise: the
\* timer is ended, retryCount incremented, and the run either waits for
\* retryDelay * retryCount or resolves with false.
attemptRefresh(r, m, dispatched) ==
    LET started == startTimer(m, "refresh-session-token")
        ended == endTimer(started, "refresh-session-token", [error |-> TRUE])
        retryCount == r.retryCount + 1
        attempting == [r EXCEPT
                          !.attempts = @ + 1,
                          !.logs = IF r.silent THEN @
                                   ELSE Append(@, Info("Attempting to refresh session token"))]
    IN  IF dispatched # "throws"
        THEN [refresh |-> [attempting EXCEPT !.pc = "dispatched",
                                              !.unsubscribe = dispatched],
              monitor |-> started]
        ELSE [refresh |->
                IF retryCount < r.maxRetries
                THEN [attempting EXCEPT
                         !.pc = "waiting",
                         !.retryCount = retryCount,
                         !.logs = @ \o ended.logs
                                    \o <<Warn("Session token refresh failed")>>]
                ELSE [attempting EXCEPT
                         !.pc = "done",
                         !.retryCount = retryCount,
                         !.result = Some(FALSE),
                         !.logs = @ \o ended.logs
                                    \o <<Warn("Session token refresh failed"),
                                         Error("Session token refresh failed after all retries")>>],
              monitor |-> ended.monitor]

\* refreshSessionToken(dispatch, options): the options take their
\* defaults and the first attempt runs.
RefreshSessionToken ==
    /\ refresh.pc = "idle"
    /\ \E maxRetries \in Optional(0..MaxRetries), retryDelay \in Optional({0, 50}),
          silent \in BOOLEAN, dispatched \in {"throws", "undefined", "function", "object"} :
        LET run == [pc |-> "idle",
                    maxRetries |-> IF maxRetries = Undefined THEN DefaultMaxRetries
                                   ELSE maxRetries[1],
                    retryDelay |-> IF retryDelay = Undefined THEN DefaultRetryDelay
                                   ELSE retryDelay[1],
                    silent |-> silent,
                    retryCount |-> 0, attempts |-> 0, successes |-> 0, waits |-> <<>>,
                    unsubscribe |-> "undefined", result |-> Undefined, logs |-> <<>>]
            attempt == attemptRefresh(run, monitor, dispatched)
        IN  /\ refresh' = attempt.refresh
            /\ monitor' = attempt.monitor
    /\ UNCHANGED <<call, disbursementStatus, paymentStatus, mutation, session, download>>

\* The setTimeout callback of an attempt runs: unsubscribe?.() throws a
\* TypeError when unsubscribe is neither nullish nor a function, and then
\* resolve is never called and the promise of the attempt stays pending;
\* otherwise the promise resolves with true, the timer is ended and the
\* run resolves with the result.
ResolveTimerFires ==
    /\ refresh.pc = "dispatched"
    /\ LET now == [monitor EXCEPT !.now = @ + ResolveDelay]
           ended == endTimer(now, "refresh-session-token", [error |-> FALSE])
       IN  IF refresh.unsubscribe = "object"
           THEN /\ refresh' = [refresh EXCEPT !.pc = "pending"]
                /\ monitor' = now
           ELSE /\ refresh' = [refresh EXCEPT
                                  !.pc = "done",
                                  !.successes = @ + 1,
                                  !.result = Some(TRUE),
                                  !.logs = @ \o ended.logs
                                             \o IF refresh.silent THEN <<>>
                                                ELSE <<Info("Session token refreshed successfully")>>]
                /\ monitor' = ended.monitor
    /\ UNCHANGED <<call, disbursementStatus, paymentStatus, mutation, session, download>>

\* The setTimeout of retryDelay * retryCount runs: the next attempt.
RetryDelayElapses ==
    /\ refresh.pc = "waiting"
    /\ \E dispatched \in {"throws", "undefined", "function", "object"} :
        LET delay == refresh.retryDelay * refresh.retryCount
            attempt == attemptRefresh([refresh EXCEPT !.waits = Append(@, delay)],
                                      [monitor EXCEPT !.now = @ + delay], dispatched)
        IN  /\ refresh' = attempt.refresh
            /\ monitor' = attempt.monitor
    /\ UNCHANGED <<call, disbursementStatus, paymentStatus, mutation, session, download>>

NextRefresh ==
    \/ RefreshSessionToken
    \/ ResolveTimerFires
    \/ RetryDelayElapses

\* A timer that has been set runs its callback.
SpecRefresh ==
    /\ Init
    /\ [][NextRefresh]_vars
    /\ WF_vars(ResolveTimerFires)
    /\ WF_vars(RetryDelayElapses)

\* The larger of maxRetries and one
AttemptsAllowed == IF refresh.maxRetries < 1 THEN 1 ELSE refresh.maxRetries

\* What a run returns and how it got there: true after one success with
\* no attempt after it, false after the allowed number of failures, and
\* retryDelay * k waited after the k-th failure.
C22_Results ==
    refresh.pc # "idle"
    => /\ refresh.attempts \in 1..AttemptsAllowed
       /\ refresh.successes <= 1
       /\ refresh.retryCount + refresh.successes <= refresh.attempts
       /\ refresh.result = Some(TRUE)
          => refresh.successes = 1 /\ refresh.attempts = refresh.retryCount + 1
       /\ refresh.result = Some(FALSE)
          => refresh.successes = 0 /\ refresh.retryCount = AttemptsAllowed
             /\ refresh.attempts = AttemptsAllowed
       /\ refresh.successes = 1 => refresh.pc = "done" /\ refresh.result = Some(TRUE)
       /\ \A k \in 1..Len(refresh.waits) : refresh.waits[k] = refresh.retryDelay * k
       /\ Len(refresh.waits) \in {refresh.attempts - 1, refresh.retryCount}

\* C22: refreshSessionToken always terminates: it returns true as soon as
\* one attempt succeeds and makes no attempt after a success, makes at
\* least one and at most maxRetries attempts, returns false after
\* maxRetries consecutive failures, and waits retryDelay * k before the
\* attempt that follows the k-th failure.
C22_AlwaysTerminates ==
    /\ [](C22_Results)
    /\ (refresh.pc # "idle") ~> (refresh.pc = "done" /\ refresh.result # Undefined)

-----------------------------------------------------------------------------
(* handleApiResponse.  A response is its status, its status text and what *)
(* response.json() gives: a rejection for a body that is not JSON, or the *)
(* parsed value, which is null or an object with or without an error      *)
(* field (the field parsed of json tells which).                           *)

\* The string both the API layer and the session helpers import
SESSION_EXPIRED == "SESSION EXPIRED"

\* handleApiResponse(response, {skipLogging}): the outcome and whether
\* response.json() was called.  Reading .error of null raises a TypeError.
handleApiResponse(response, skipLogging) ==
    LET status == ToString(response.status) \o " " \o response.statusText
        requested == IF skipLogging THEN <<>> ELSE <<Info("API " \o status)>>
        client == IF response.status >= 400
                  THEN <<Warn("Client error: " \o status)>> ELSE <<>>
        successful == IF ~skipLogging /\ response.status >= 200 /\ response.status < 300
                      THEN <<Info("API request successful")>> ELSE <<>>
        truthy(field) == field # Undefined /\ field[1] # ""
    IN  IF response.status = 401
        THEN [bodyRead |-> FALSE,
              outcome |-> Throw(SESSION_EXPIRED,
                                requested \o <<Warn("Session expired, redirecting to login")>>)]
        ELSE IF response.status >= 500
        THEN [bodyRead |-> FALSE,
              outcome |-> Throw("Server error: " \o status,
                                requested \o <<Error("Server error: " \o status)>>)]
        ELSE IF response.json.parsed = "rejects"
        THEN [bodyRead |-> TRUE,
              outcome |-> Throw("Failed to parse API response",
                                requested \o client
                                \o <<Error("Failed to parse API response")>>)]
        ELSE IF response.json.parsed = "null"
        THEN [bodyRead |-> TRUE, outcome |-> Throw("TypeError", requested \o client)]
        ELSE IF truthy(response.json.error)
        THEN [bodyRead |-> TRUE,
              outcome |-> Throw(response.json,
                                requested \o client \o <<Error("API returned error")>>)]
        ELSE [bodyRead |-> TRUE,
              outcome |-> Return(response.json, requested \o client \o successful)]

\* handleApiResponse(response, options)
HandleApiResponse ==
    /\ call = NoCall
    /\ \E status \in {200, 204, 302, 400, 401, 404, 422, 499, 500, 503},
          statusText \in {"", "Status Text"},
          json \in {[parsed |-> "rejects"], [parsed |-> "null"]}
                   \cup {[parsed |-> "object", error |-> error, message |-> message] :
                            error \in {Undefined, Some(""), Some("not_found")},
                            message \in {Undefined, Some("Not found")}},
          skipLogging \in BOOLEAN :
        LET response == [status |-> status, statusText |-> statusText, json |-> json]
            handled == handleApiResponse(response, skipLogging)
        IN  call' = [fn |-> "handleApiResponse", response |-> response,
                     skipLogging |-> skipLogging, bodyRead |-> handled.bodyRead,
                     outcome |-> handled.outcome]
    /\ UNCHANGED <<disbursementStatus, paymentStatus,
                   mutation, refresh, session, download, monitor>>


-----------------------------------------------------------------------------
(* The stored session token.  A token is the character sequence held in   *)
(* localStorage under LOCAL_STORAGE_SESSION_TOKEN, absent when there is   *)
(* none.  The variable session holds it next to the actions passed to     *)
(* dispatch and the position of a run of endSessionIfTokenInvalid.        *)

\* JSON.parse(atob(part)) of the payloads the tokens of the model carry: a
\* throw for text that is not base64 or not JSON, null, or an object, of
\* which truthy tells whether payload.exp is truthy and seconds is the
\* number payload.exp stands for in payload.exp * 1000.  The objects are
\* {"exp":2}, {"exp":0}, {"exp":"x"} and {"sub":"a"}.
ParsePayload(part) ==
    CASE Text(part) = "eyJleHAiOjJ9" ->
            [parsed |-> "object", truthy |-> TRUE, seconds |-> Some(2)]
      [] Text(part) = "eyJleHAiOjB9" ->
            [parsed |-> "object", truthy |-> FALSE, seconds |-> Some(0)]
      [] Text(part) = "eyJleHAiOiJ4In0" ->
            [parsed |-> "object", truthy |-> TRUE, seconds |-> NotANumber]
      [] Text(part) = "eyJzdWIiOiJhIn0" ->
            [parsed |-> "object", truthy |-> FALSE, seconds |-> NotANumber]
      [] Text(part) = "bnVsbA" -> [parsed |-> "null"]
      [] OTHER -> [parsed |-> "throws"]

\* localStorageSessionToken.isValid() with the token in storage at the
\* time now of Date.now().  expiryTime is NaN, hence falsy, when exp is
\* absent or no number.
isValid(token, now) ==
    LET tokenParts == Split(token[1], ".")
        payload == ParsePayload(tokenParts[2])
    IN  IF token = Undefined \/ token[1] = <<>> THEN Return(FALSE, <<>>)
        ELSE IF Len(tokenParts) # 3 THEN Return(FALSE, <<>>)
        ELSE IF payload.parsed # "object"
        THEN Return(FALSE, <<Warn("Failed to parse token payload")>>)
        ELSE IF payload.seconds # NotANumber /\ payload.seconds[1] # 0
                /\ now > payload.seconds[1] * 1000
        THEN Return(FALSE, <<Warn("Session token is expired")>>)
        ELSE Return(TRUE, <<>>)

\* localStorageSessionToken.getInfo().  new Date(NaN).toISOString() throws
\* a RangeError; the expiry times of the model are below one minute.
getInfo(token, now) ==
    LET tokenParts == Split(token[1], ".")
        payload == ParsePayload(tokenParts[2])
        toISOString(seconds) ==
            "1970-01-01T00:00:" \o (IF seconds < 10 THEN "0" ELSE "")
            \o ToString(seconds) \o ".000Z"
    IN  IF token = Undefined \/ token[1] = <<>>
        THEN Return([hasToken |-> FALSE, isValid |-> FALSE, expiryTime |-> Undefined], <<>>)
        ELSE IF Len(tokenParts) # 3
        THEN Return([hasToken |-> TRUE, isValid |-> FALSE, expiryTime |-> Undefined], <<>>)
        ELSE IF payload.parsed # "object"
                \/ (payload.truthy /\ payload.seconds = NotANumber)
        THEN Return([hasToken |-> TRUE, isValid |-> FALSE, expiryTime |-> Undefined],
                    <<Warn("Failed to parse token for info")>>)
        ELSE Return([hasToken |-> TRUE,
                     isValid |-> ~payload.truthy \/ now < payload.seconds[1] * 1000,
                     expiryTime |-> IF payload.truthy
                                    THEN Some(toISOString(payload.seconds[1]))
                                    ELSE Undefined], <<>>)

\* localStorageSessionToken.isValid()
IsValid ==
    /\ call = NoCall
    /\ session.pc = "idle"
    /\ \E now \in {0, 1999, 2000, 2001} :
        call' = [fn |-> "isValid", token |-> session.token, now |-> now,
                 outcome |-> isValid(session.token, now)]
    /\ UNCHANGED <<disbursementStatus, paymentStatus,
                   mutation, refresh, session, download, monitor>>

\* localStorageSessionToken.getInfo(), also at the instant isValid() was
\* just called at
GetInfo ==
    /\ session.pc = "idle"
    /\ \/ call = NoCall
       \/ call.fn = "isValid"
    /\ \E now \in IF call = NoCall THEN {0, 1999, 2000, 2001} ELSE {call.now} :
        call' = [fn |-> "getInfo", token |-> session.token, now |-> now,
                 outcome |-> getInfo(session.token, now),
                 earlier |-> call]
    /\ UNCHANGED <<disbursementStatus, paymentStatus,
                   mutation, refresh, session, download, monitor>>

-----------------------------------------------------------------------------
(* endSessionIfTokenInvalid.                                              *)

\* endSessionIfTokenInvalid after the SSO step, when the reset of the user
\* store fails doing nothing more.
endSessionUnlessResetFailed(s, ssoRejected) ==
    IF ssoRejected
    THEN [s EXCEPT !.pc = "done", !.ssoRejected = TRUE,
                   !.logs = @ \o <<Error("Failed to reset SSO user store")>>]
    ELSE [s EXCEPT !.pc = "done",
                   !.dispatched = Append(@, "sessionExpiredAction"),
                   !.logs = @ \o <<Info("Session ended successfully")>>]

\* endSessionIfTokenInvalid from the end of the SSO step on: the action is
\* passed to dispatch; when dispatch throws, the outer catch removes the
\* token and passes the action to dispatch once more.
endSession(s, ssoRejected) ==
    LET reset == [s EXCEPT
                     !.ssoRejected = ssoRejected,
                     !.logs = @ \o IF ~s.useSSO THEN <<>>
                                   ELSE IF ssoRejected
                                   THEN <<Error("Failed to reset SSO user store")>>
                                   ELSE <<Info("SSO user store reset successfully")>>]
    IN  IF s.dispatchThrows
        THEN [reset EXCEPT
                 !.pc = "done",
                 !.token = Undefined,
                 !.dispatched = @ \o <<"sessionExpiredAction", "sessionExpiredAction">>,
                 !.logs = @ \o <<Error("Failed to end session"),
                                 Error("Failed to force session cleanup")>>]
        ELSE [reset EXCEPT
                 !.pc = "done",
                 !.dispatched = Append(@, "sessionExpiredAction"),
                 !.logs = @ \o <<Info("Session ended successfully")>>]

\* endSessionIfTokenInvalid(error, dispatch) up to its await of
\* singleUserStore(), or to its end when there is none.
\* localStorageSessionToken.remove() removes the item and logs when there
\* was a non-empty one.
EndSessionIfTokenInvalid ==
    /\ call = NoCall
    /\ session.pc = "idle"
    /\ \E error \in {SESSION_EXPIRED, "Unauthorized", ""},
          useSSO \in BOOLEAN, dispatchThrows \in BOOLEAN :
        LET run == [pc |-> "resetting", token |-> session.token,
                    dispatched |-> session.dispatched,
                    error |-> error, useSSO |-> useSSO,
                    dispatchThrows |-> dispatchThrows, ssoRejected |-> FALSE,
                    tokenBefore |-> session.token, logs |-> <<>>]
            removed == [run EXCEPT
                           !.token = Undefined,
                           !.logs = <<Info("Session expired, ending user session")>>
                                    \o IF session.token = Undefined \/ session.token[1] = <<>>
                                       THEN <<>>
                                       ELSE <<Info("Session token removed from localStorage")>>]
        IN  session' =
                IF error # SESSION_EXPIRED
                THEN [run EXCEPT !.pc = "done",
                                 !.logs = <<Debug("Session not expired, continuing")>>]
                ELSE IF useSSO THEN removed
                ELSE endSession(removed, FALSE)
    /\ UNCHANGED <<call, disbursementStatus, paymentStatus,
                   mutation, refresh, download, monitor>>

\* singleUserStore() resolves or rejects
UserStoreSettles ==
    /\ session.pc = "resetting"
    /\ \E ssoRejected \in BOOLEAN : session' = endSession(session, ssoRejected)
    /\ UNCHANGED <<call, disbursementStatus, paymentStatus,
                   mutation, refresh, download, monitor>>

\* A token, or none, is in storage and nothing is in flight.
InitSession ==
    LET \* Tokens in storage: none, the empty string, tokens of one, two and four
        \* parts, and three-part tokens by payload.
        StoredTokens ==
            Optional({<<>>, <<"a", "b", "c">>, <<"a", ".", "b">>, <<"a", ".", "b", ".", "c", ".", "d">>,
                      <<"a", ".", "e", "y", "J", "l", "e", "H", "A", "i", "O", "j", "J", "9", ".", "s">>, <<"a", ".", "e", "y", "J", "l", "e", "H", "A", "i", "O", "j", "B", "9", ".", "s">>,
                      <<"a", ".", "e", "y", "J", "l", "e", "H", "A", "i", "O", "i", "J", "4", "I", "n", "0", ".", "s">>, <<"a", ".", "e", "y", "J", "z", "d", "W", "I", "i", "O", "i", "J", "h", "I", "n", "0", ".", "s">>,
                      <<"a", ".", "b", "n", "V", "s", "b", "A", ".", "s">>, <<"a", ".", "e", "2", "V", "4", "c", "A", ".", "s">>, <<"a", ".", "!", "!", ".", "s">>, <<".", ".">>})
    IN
    /\ call = NoCall
    /\ disbursementStatus = "draft"
    /\ paymentStatus = "pending"
    /\ mutation = [pc |-> "idle"]
    /\ refresh = [pc |-> "idle"]
    /\ session \in {[pc |-> "idle", token |-> token, dispatched |-> <<>>] :
                        token \in StoredTokens}
    /\ download = [pc |-> "idle"]
    /\ monitor = [marks |-> <<>>, metrics |-> <<>>, now |-> 1, calls |-> <<>>]

NextSession ==
    \/ HandleApiResponse
    \/ IsValid
    \/ GetInfo
    \/ EndSessionIfTokenInvalid
    \/ UserStoreSettles

SpecSession == InitSession /\ [][NextSession]_vars


-----------------------------------------------------------------------------
(* Session: claims.                                                        *)

ApiCall == call # NoCall /\ call.fn = "handleApiResponse"

\* C23: handleApiResponse returns the parsed body only for a response
\* with a non-error status: a 401 raises SESSION_EXPIRED and a status of
\* 500 or more raises a server error, both without reading the body;
\* every other response with a status of 400 or more ends in a raised
\* error as well; a body that fails to parse or carries a truthy error
\* field is raised, never returned.
C23_ErrorStatusRaises ==
    ApiCall
    => /\ ~call.outcome.threw => call.response.status < 400
       /\ call.response.status = 401
          => /\ call.outcome.threw
             /\ call.outcome.error = SESSION_EXPIRED
             /\ ~call.bodyRead
       /\ call.response.status >= 500 => call.outcome.threw /\ ~call.bodyRead
       /\ call.response.status >= 400 => call.outcome.threw
       /\ call.response.json.parsed = "rejects" => call.outcome.threw
       /\ (call.response.json.parsed = "object"
           /\ call.response.json.error \notin {Undefined, Some("")})
          => call.outcome.threw

\* The same without the client errors that carry a body free of errors:
\* it holds, so those responses are the one case.
C23_ExceptClientErrors ==
    ApiCall
    => /\ call.response.status = 401
          => /\ call.outcome.threw
             /\ call.outcome.error = SESSION_EXPIRED
             /\ ~call.bodyRead
       /\ call.response.status >= 500 => call.outcome.threw /\ ~call.bodyRead
       /\ call.response.json.parsed = "rejects" => call.outcome.threw
       /\ (call.response.json.parsed = "object"
           /\ call.response.json.error \notin {Undefined, Some("")})
          => call.outcome.threw

TokenReadable ==
    /\ call.token # Undefined
    /\ Len(Split(call.token[1], ".")) = 3
    /\ ParsePayload(Split(call.token[1], ".")[2]).parsed = "object"

\* C27: for every token in storage and every current time isValid() and
\* getInfo().isValid give the same answer, also at the instant the token
\* expires: false for a token that has not three parts or a payload that
\* does not parse, true for a token without exp.
C27_SameAnswer ==
    call # NoCall /\ call.fn = "getInfo"
    => /\ ~call.outcome.threw
       /\ call.earlier.fn = "isValid"
          => /\ ~call.earlier.outcome.threw
             /\ call.outcome.value.isValid = call.earlier.outcome.value
       /\ ~TokenReadable => ~call.outcome.value.isValid
       /\ (TokenReadable
           /\ ParsePayload(Split(call.token[1], ".")[2]).seconds = NotANumber
           /\ ~ParsePayload(Split(call.token[1], ".")[2]).truthy)
          => call.outcome.value.isValid


-----------------------------------------------------------------------------
(* saveFile.  The variable download holds one call: whether it threw, the  *)
(* link and its place in the document, the timer set for the cleanup, and *)
(* how often the object URL was revoked, the callback and onError were    *)
(* invoked and the cleanup ran.                                            *)

\* delay = 3000 and maxFileSize = 100 * 1024 * 1024 of the parameters
DefaultDelay == 3000

DefaultMaxFileSize == 104857600

\* Most calls of the returned cleanup function
MaxManualCleanups == 2

\* The closure cleanup of saveFile on the call d: revoke the object URL,
\* remove the link, invoke the callback; a throw of the callback is caught
\* and logged.
cleanup(d) ==
    [d EXCEPT !.cleanups = @ + 1,
              !.revoked = @ + 1,
              !.linkInDocument = FALSE,
              !.callbacks = IF d.hasCallback THEN @ + 1 ELSE @,
              !.logs = IF d.hasCallback /\ d.callbackThrows
                       THEN Append(@, Error("Error during file save cleanup"))
                       ELSE @]

\* saveFile({file, fileUrl, suggestedFileName, callback, delay, options}).
\* A throw inside the try block is caught by its catch, which calls
\* onError again and rethrows.  options.allowedTypes is not passed.
SaveFile ==
    /\ download.pc = "idle"
    /\ \E file \in Optional({[size |-> 0, type |-> "text/csv"],
                             [size |-> 10, type |-> "text/csv"],
                             [size |-> 10, type |-> "application/x-msdownload"]}),
          fileUrl \in {Undefined, Some(""), Some("https://host/file.csv")},
          suggestedFileName \in {<<>>, <<" ">>, <<"a", ".", "c", "s", "v">>, <<" ", ".", "a", ":", "b", ".", " ">>, <<".", ".">>},
          hasCallback \in BOOLEAN, callbackThrows \in BOOLEAN, hasOnError \in BOOLEAN,
          delay \in Optional({0}),
          options \in {[validateFile |-> Undefined, maxFileSize |-> Undefined],
                       [validateFile |-> Some(FALSE), maxFileSize |-> Undefined],
                       [validateFile |-> Undefined, maxFileSize |-> Some(5)]} :
        LET maxFileSize == IF options.maxFileSize = Undefined THEN DefaultMaxFileSize
                           ELSE options.maxFileSize[1]
            validateFile == options.validateFile = Undefined \/ options.validateFile[1]
            \* validateFileForSave(file, {maxFileSize, allowedTypes}).errors
            errors ==
                (IF file[1].size = 0 THEN <<"File is empty">> ELSE <<>>)
                \o (IF file[1].size > maxFileSize THEN <<"File too large">> ELSE <<>>)
                \o (IF file[1].type \in {"application/x-executable",
                                         "application/x-msdownload", "application/x-msi",
                                         "application/x-msdos-program"}
                    THEN <<"Potentially dangerous file type detected">> ELSE <<>>)
            \* sanitizeFileName(filename) for names of up to 255 characters
            replaced == [i \in 1..Len(suggestedFileName) |->
                            IF suggestedFileName[i]
                                  \in {"<", ">", ":", "\"", "/", "\\", "|", "?", "*"}
                            THEN "_" ELSE suggestedFileName[i]]
            RECURSIVE StripDots(_)
            StripDots(name) ==
                IF name # <<>> /\ Head(name) = "." THEN StripDots(Tail(name))
                ELSE IF name # <<>> /\ name[Len(name)] = "."
                THEN StripDots(SubSeq(name, 1, Len(name) - 1))
                ELSE name
            cleanFileName == IF StripDots(Trim(replaced)) = <<>> THEN "download"
                             ELSE Text(StripDots(Trim(replaced)))
            objUrl == IF file # Undefined THEN "blob:object-url" ELSE fileUrl[1]
            failure ==
                IF file = Undefined /\ FalsyString(fileUrl)
                THEN <<"Either file or fileUrl is required", "Save file failed: missing input">>
                ELSE IF Trim(suggestedFileName) = <<>>
                THEN <<"Suggested filename is required", "Save file failed: missing filename">>
                ELSE IF file # Undefined /\ validateFile /\ errors # <<>>
                THEN <<"File validation failed: " \o errors[1],
                       "Save file failed: validation error">>
                ELSE <<>>
        IN  download' =
                IF failure # <<>>
                THEN [pc |-> "failed",
                      result |-> Throw(failure[1], <<Error(failure[2]),
                                                     Error("Save file operation failed")>>),
                      onErrors |-> IF hasOnError THEN 2 ELSE 0]
                ELSE [pc |-> "saved",
                      link |-> [href |-> objUrl, download |-> cleanFileName],
                      linkInDocument |-> TRUE, clicks |-> 1,
                      timer |-> "set",
                      delay |-> IF delay = Undefined THEN DefaultDelay ELSE delay[1],
                      hasCallback |-> hasCallback, callbackThrows |-> callbackThrows,
                      cleanups |-> 0, manualCleanups |-> 0, revoked |-> 0, callbacks |-> 0,
                      onErrors |-> 0,
                      logs |-> <<Info("File saved successfully")>>]
    /\ UNCHANGED <<call, disbursementStatus, paymentStatus,
                   mutation, refresh, session, monitor>>

\* The timer set by setTimeout(cleanup, delay) runs its callback.
CleanupTimerFires ==
    /\ download.pc = "saved"
    /\ download.timer = "set"
    /\ download' = [cleanup(download) EXCEPT !.timer = "fired"]
    /\ UNCHANGED <<call, disbursementStatus, paymentStatus,
                   mutation, refresh, session, monitor>>

\* The caller runs the returned cleanup: clearTimeout(timeoutId), which
\* does nothing for a timer that has fired, and cleanup().
ManualCleanup ==
    /\ download.pc = "saved"
    /\ download.manualCleanups < MaxManualCleanups
    /\ download' = [cleanup(download) EXCEPT
                       !.manualCleanups = @ + 1,
                       !.timer = IF @ = "set" THEN "cleared" ELSE @]
    /\ UNCHANGED <<call, disbursementStatus, paymentStatus,
                   mutation, refresh, session, monitor>>

NextDownload ==
    \/ SaveFile
    \/ CleanupTimerFires
    \/ ManualCleanup

SpecDownload == Init /\ [][NextDownload]_vars

\* C25: for each saveFile call that passes validation the cleanup step
\* (revoke the object URL, remove the link, invoke the callback) runs
\* exactly once, whether it is triggered by the delay timer, by the
\* returned cleanup function, or by both in either order; the callback is
\* never invoked twice.
C25_CleanupOnce ==
    download.pc = "saved"
    => /\ download.cleanups <= 1
       /\ download.revoked <= 1
       /\ download.callbacks <= 1
       /\ (download.timer = "fired" \/ download.manualCleanups > 0)
          => /\ download.cleanups = 1
             /\ ~download.linkInDocument
             /\ download.hasCallback => download.callbacks = 1

\* The cleanup function called once before the timer fires: the timer is
\* cleared and the cleanup runs once.
C25_ManualFirst ==
    (download.pc = "saved" /\ download.manualCleanups = 1 /\ download.timer = "cleared")
    => download.cleanups = 1 /\ download.callbacks <= 1


-----------------------------------------------------------------------------
(* PerformanceMonitor under calls of its methods.  monitor.calls holds the *)
(* names of the measureAsync calls whose function is still pending; the   *)
(* variable call holds the method call that completed last, with the      *)
(* metrics it added.                                                       *)

\* Most metrics recorded and calls pending together
MaxMetrics == 3

\* measureAsync(name, fn) up to `await fn()`: the timer is started.
MeasureAsync ==
    /\ Len(monitor.metrics) + Len(monitor.calls) < MaxMetrics
    /\ \E name \in {"load", "save"} :
        monitor' = [startTimer(monitor, name) EXCEPT !.calls = Append(@, name)]
    /\ UNCHANGED <<call, disbursementStatus, paymentStatus,
                   mutation, refresh, session, download>>

\* The function of a pending measureAsync call resolves or rejects: the
\* timer is ended, and the result returned or the error rethrown.
MeasureAsyncSettles ==
    \E i \in 1..Len(monitor.calls), rejected \in BOOLEAN :
        LET name == monitor.calls[i]
            ended == endTimer(monitor, name, [error |-> rejected])
        IN  /\ monitor' = [ended.monitor EXCEPT
                              !.calls = SubSeq(@, 1, i - 1) \o SubSeq(@, i + 1, Len(@))]
            /\ call' = [fn |-> "measureAsync", name |-> name,
                        added |-> SubSeq(ended.monitor.metrics, Len(monitor.metrics) + 1,
                                        Len(ended.monitor.metrics)),
                        outcome |-> IF rejected THEN Throw("rejected", ended.logs)
                                    ELSE Return("resolved", ended.logs)]
            /\ UNCHANGED <<disbursementStatus, paymentStatus,
                           mutation, refresh, session, download>>

\* measureSync(name, fn) with a function that returns or throws
MeasureSync ==
    /\ Len(monitor.metrics) + Len(monitor.calls) < MaxMetrics
    /\ \E name \in {"load", "save"}, threw \in BOOLEAN :
        LET ended == endTimer(startTimer(monitor, name), name, [error |-> threw])
        IN  /\ monitor' = ended.monitor
            /\ call' = [fn |-> "measureSync", name |-> name,
                        added |-> SubSeq(ended.monitor.metrics, Len(monitor.metrics) + 1,
                                        Len(ended.monitor.metrics)),
                        outcome |-> IF threw THEN Throw("threw", ended.logs)
                                    ELSE Return("returned", ended.logs)]
    /\ UNCHANGED <<disbursementStatus, paymentStatus,
                   mutation, refresh, session, download>>

\* performanceMonitor.startTimer(name)
StartTimer ==
    /\ \E name \in {"load", "save"} :
        /\ monitor' = startTimer(monitor, name)
        /\ call' = [fn |-> "startTimer", name |-> name, added |-> <<>>,
                    outcome |-> Return(Undefined, <<>>)]
    /\ UNCHANGED <<disbursementStatus, paymentStatus,
                   mutation, refresh, session, download>>

\* performanceMonitor.endTimer(name)
EndTimer ==
    /\ Len(monitor.metrics) + Len(monitor.calls) < MaxMetrics
    /\ \E name \in {"load", "save"} :
        LET ended == endTimer(monitor, name, [error |-> FALSE])
        IN  /\ monitor' = ended.monitor
            /\ call' = [fn |-> "endTimer", name |-> name,
                        open |-> name \in DOMAIN monitor.marks,
                        marked |-> name \in DOMAIN ended.monitor.marks,
                        added |-> SubSeq(ended.monitor.metrics, Len(monitor.metrics) + 1,
                                        Len(ended.monitor.metrics)),
                        outcome |-> Return(ended.value, ended.logs)]
    /\ UNCHANGED <<disbursementStatus, paymentStatus,
                   mutation, refresh, session, download>>

NextMonitor ==
    \/ MeasureAsync
    \/ MeasureAsyncSettles
    \/ MeasureSync
    \/ StartTimer
    \/ EndTimer
    \/ Tick

SpecMonitor == Init /\ [][NextMonitor]_vars

\* C26: every measureAsync or measureSync call that finishes, by
\* returning or by raising, records exactly one metric under its name,
\* also when several calls with the same name are in flight at once;
\* endTimer for a name with no open timer records nothing and returns 0,
\* and endTimer removes the open mark.
C26_OneMetricPerCall ==
    /\ (call # NoCall /\ call.fn \in {"measureAsync", "measureSync"})
       => /\ Len(call.added) = 1
          /\ call.added[1].name = call.name
    /\ (call # NoCall /\ call.fn = "endTimer")
       => /\ ~call.open => call.added = <<>> /\ call.outcome.value = 0
          /\ ~call.marked

\* The same without measureAsync, whose function may still be pending
\* when another call under its name starts or ends the timer: it holds.
C26_SyncAndEndTimer ==
    /\ (call # NoCall /\ call.fn = "measureSync")
       => Len(call.added) = 1 /\ call.added[1].name = call.name
    /\ (call # NoCall /\ call.fn = "endTimer")
       => /\ ~call.open => call.added = <<>> /\ call.outcome.value = 0
          /\ call.open => Len(call.added) = 1
          /\ ~call.marked


-----------------------------------------------------------------------------
(* The role table and the role-change check taken together, under         *)
(* SpecAccess.                                                            *)

\* C28: with the role table as it stands, validateRoleChangePermission
\* allows a role change exactly when the acting role is owner: it denies
\* every target role to business, developer, financial_controller and to
\* an unknown or absent acting role, and allows every target role,
\* known or not, to owner.
C28_OnlyOwnerAssigns ==
    call.fn = "validateRoleChangePermission"
        => /\ ~call.outcome.threw
           /\ call.outcome.value.isValid = (call.currentUserRole = Some("owner"))
           /\ call.outcome.value.isValid => call.outcome.value.reason = Undefined

\* C28 witness: an owner was allowed to assign a role the table does not
\* list.
C28_Witness ==
    /\ call.fn = "validateRoleChangePermission"
    /\ call.currentUserRole = Some("owner")
    /\ call.newRole = Some("guest")
    /\ call.outcome.value.isValid

\* A role below owner was denied a target role of lower rank.
C28_WitnessDenied ==
    /\ call.fn = "validateRoleChangePermission"
    /\ call.currentUserRole = Some("financial_controller")
    /\ call.newRole = Some("developer")
    /\ ~call.outcome.value.isValid


-----------------------------------------------------------------------------
(* The counts and the order of the statistics, under SpecCsv.             *)

\* x <= y for two non-negative numbers
C29_AtMost(x, y) == ~LessThan(y, x)

\* The call was getCSVStatistics on a text with a header and at least
\* one data row.
C29_Applies ==
    /\ call # NoCall
    /\ call.fn = "getCSVStatistics"
    /\ Len(CsvLines(call.csvContent)) >= 2

\* The counts of C29: valid and invalid rows add up to rowCount, the
\* number of non-blank data lines.
C29_Counts ==
    C29_Applies
        => /\ ~call.outcome.threw
           /\ call.outcome.value.rowCount = Len(CsvLines(call.csvContent)) - 1
           /\ call.outcome.value.validRows + call.outcome.value.invalidRows
                  = call.outcome.value.rowCount

\* C29: for every CSV text with a header and at least one data row,
\* getCSVStatistics returns validRows + invalidRows = rowCount = the
\* number of non-blank data lines, and whenever validRows > 0 it returns
\* minAmount <= averageAmount <= maxAmount and
\* totalAmount >= maxAmount >= 0.
C29_StatisticsOrdered ==
    /\ C29_Counts
    /\ (C29_Applies /\ call.outcome.value.validRows > 0)
        => LET stats == call.outcome.value
           IN  /\ C29_AtMost(stats.minAmount, stats.averageAmount)
               /\ C29_AtMost(stats.averageAmount, stats.maxAmount)
               /\ C29_AtMost(stats.maxAmount, stats.totalAmount)
               /\ C29_AtMost(BigNumberZero, stats.maxAmount)
               /\ ~IsNaN(stats.maxAmount) /\ ~IsNegative(stats.maxAmount)

\* The same for texts whose amounts have at most twenty decimal places:
\* it holds.
C29_UpToTwentyPlaces ==
    /\ C29_Counts
    /\ (C29_Applies /\ call.outcome.value.validRows > 0
        /\ Len(call.outcome.value.totalAmount.limbs) = FractionLimbs + 1
        /\ Len(call.outcome.value.minAmount.limbs) = FractionLimbs + 1)
        => LET stats == call.outcome.value
           IN  /\ C29_AtMost(stats.minAmount, stats.averageAmount)
               /\ C29_AtMost(stats.averageAmount, stats.maxAmount)
               /\ C29_AtMost(stats.maxAmount, stats.totalAmount)
               /\ C29_AtMost(BigNumberZero, stats.maxAmount)


-----------------------------------------------------------------------------
(* Reachability in the two status machines, under SpecStatus.             *)

\* The validator of a machine allows the change from one status to
\* another: it returns true.
C30_Allowed(machine, from, to) ==
    LET outcome == IF machine = "disbursement"
                   THEN validateDisbursementStatusTransition(from, to)
                   ELSE validatePaymentStatusTransition(from, to)
    IN  ~outcome.threw /\ outcome.value

\* The statuses reached from a set of statuses in at most n allowed
\* changes
RECURSIVE C30_Reached(_, _, _)
C30_Reached(machine, statuses, n) ==
    IF n = 0 THEN statuses
    ELSE C30_Reached(machine,
                     statuses \cup {to \in StatusStrings :
                                       \E from \in statuses :
                                           C30_Allowed(machine, from, to)},
                     n - 1)

C30_CanFinish(machine, status) ==
    C30_Reached(machine, {status}, Cardinality(StatusStrings))
        \cap TerminalStatuses # {}

\* C30: in both status machines a terminal status (completed or
\* canceled) is reachable by allowed transitions from every non-terminal
\* status (draft, pending, processing, failed, retry for disbursements;
\* pending, processing, failed, retry for payments), and no allowed
\* transition leads back to the initial status (draft for
\* disbursements, pending for payments): the validators answer true for
\* no change to it and no request changes a status to it.
C30_TerminalReachable ==
    /\ [](/\ disbursementStatus \in {"draft", "pending", "processing", "failed", "retry"}
              => C30_CanFinish("disbursement", disbursementStatus)
          /\ paymentStatus \in {"pending", "processing", "failed", "retry"}
              => C30_CanFinish("payment", paymentStatus))
    /\ [][/\ disbursementStatus' # disbursementStatus => disbursementStatus' # "draft"
          /\ paymentStatus' # paymentStatus => paymentStatus' # "pending"
          /\ (call'.fn = "validateDisbursementStatusTransition"
              /\ call'.newStatus = "draft")
                 => (call'.outcome.threw \/ ~call'.outcome.value)
          /\ (call'.fn = "validatePaymentStatusTransition"
              /\ call'.newStatus = "pending")
                 => (call'.outcome.threw \/ ~call'.outcome.value)]_vars

\* C30 witness: a failed disbursement was retried and is now in retry,
\* a status that is not terminal.
C30_Witness ==
    /\ call.fn = "validateDisbursementStatusTransition"
    /\ call.currentStatus = "failed"
    /\ call.newStatus = "retry"
    /\ call.outcome = Return(TRUE, <<>>)
    /\ disbursementStatus = "retry"
    /\ C30_CanFinish("disbursement", disbursementStatus)

=============================================================================
